---- MODULE Spec2Model ----
(***************************************************************************)
(* Masjid prayer-time board: the next-prayer resolver, the countdown       *)
(* formatter and the notice visibility filter of App.tsx, driven by the    *)
(* 1 Hz clock tick and by data refreshes; and the persistence coordinator  *)
(* (getCloudData, syncToCloud) with the dashboard handlers that call it.   *)
(*                                                                         *)
(* Conventions of the model                                                *)
(*  - a JavaScript string is a sequence of one-character strings, so that  *)
(*    split, Number, padStart and toString are computed, not assumed;      *)
(*  - a Date is its number of milliseconds since 1970-01-01T00:00 UTC; a   *)
(*    device's local fields (getHours, getDate, ...) are read through the  *)
(*    device's UTC offset; daylight-saving changes are not modelled;       *)
(*  - a calendar date YYYY-MM-DD is its day number since 1970-01-01;       *)
(*  - progress, a double in the code, is kept as an exact fraction         *)
(*    num/den (den > 0);                                                   *)
(*  - an ISO-8601 instant (toISOString) is the instant it denotes, in      *)
(*    milliseconds: the format is exact to the millisecond and in UTC;     *)
(*  - a text held by localStorage or by the key-value store is either the  *)
(*    JSON text of a document or a text that is not JSON.                  *)
(***************************************************************************)
EXTENDS Integers, Sequences, FiniteSets, TLC

VARIABLES
    data,           \* useState<AppData | null>: the authoritative copy
    currentTime,    \* useState(new Date()), refreshed by the 1 Hz timer; the
                    \* model lets the device clock advance only at a tick, so
                    \* new Date() read anywhere else yields currentTime too
    tzOffset,       \* the device's UTC offset in minutes (local = UTC + tzOffset)
    activeNotices,  \* useMemo(..., [data]): the notice filter's last result
    formState,      \* useState<AppData | null>: the dashboard's working copy
    deletingId,     \* useState<string | null>: the notice awaiting a second click
    alertShown,     \* the message of the last window.alert, "" before any
    remote,         \* the text stored under CLOUD_URL, NullData when none is
    cache,          \* localStorage[OFFLINE_KEY], NullData when getItem is null
    calls,          \* the getCloudData / syncToCloud invocations of this device
    lastSettled,    \* the invocation that settled last on this device
    session,        \* localStorage[SESSION_TOKEN], NullData when getItem is null
    currentUser,    \* useState<User | null>: the user of the dashboard
    view,           \* useState<ViewState>: PUBLIC, LOGIN or DASHBOARD
    loginError,     \* useState(''): the message under the login form
    peer,           \* a second device with the dashboard open: its working
                    \* copy and its save under way
    aliased,        \* the holders of the object that is formState.prayers:
                    \* data, and the saves under way that were called with
                    \* the working copy
    timeouts        \* the instants at which the pending setTimeout callbacks
                    \* of handleDeleteNotice are due

appVars == <<data, currentTime, tzOffset, activeNotices>>
uiVars == <<formState, deletingId, alertShown, aliased, timeouts>>
syncVars == <<remote, cache, calls, lastSettled>>
authVars == <<session, currentUser, view, loginError>>
vars == <<data, currentTime, tzOffset, activeNotices, formState, deletingId,
          alertShown, remote, cache, calls, lastSettled, session, currentUser,
          view, loginError, peer, aliased, timeouts>>

(***************************************************************************)
(* Bounds of the model                                                     *)
(***************************************************************************)
\* days (UTC) the clock runs through; day 0 is Thursday 1970-01-01
MaxDay == 3
\* milliseconds between two samples of the clock explored for the resolver
TickMs == 59500
\* milliseconds between two samples of the clock explored for the notices
NoticeTickMs == 21600000

(***************************************************************************)
(* Program constants                                                       *)
(***************************************************************************)
MinutesPerDay == 1440
MsPerSecond == 1000
MsPerMinute == 60000
MsPerHour == 3600000
MsPerDay == 86400000
Friday == 5

\* data === null
NullData == [isNull |-> TRUE]

(***************************************************************************)
(* Strings                                                                 *)
(***************************************************************************)
HM(a, b, c, d) == <<a, b, ":", c, d>>

IndexOf(s, ch) ==
    IF \E i \in 1..Len(s) : s[i] = ch
    THEN CHOOSE i \in 1..Len(s) : s[i] = ch /\ \A j \in 1..(i - 1) : s[j] # ch
    ELSE 0

RECURSIVE split(_, _)
split(s, sep) ==
    LET i == IndexOf(s, sep)
    IN  IF i = 0 THEN <<s>>
        ELSE <<SubSeq(s, 1, i - 1)>> \o split(SubSeq(s, i + 1, Len(s)), sep)

DigitVal(ch) ==
    CASE ch = "0" -> 0 [] ch = "1" -> 1 [] ch = "2" -> 2 [] ch = "3" -> 3
      [] ch = "4" -> 4 [] ch = "5" -> 5 [] ch = "6" -> 6 [] ch = "7" -> 7
      [] ch = "8" -> 8 [] ch = "9" -> 9

RECURSIVE Number(_)
Number(s) ==
    IF Len(s) = 0 THEN 0
    ELSE Number(SubSeq(s, 1, Len(s) - 1)) * 10 + DigitVal(s[Len(s)])

DigitChar(n) ==
    CASE n = 0 -> "0" [] n = 1 -> "1" [] n = 2 -> "2" [] n = 3 -> "3"
      [] n = 4 -> "4" [] n = 5 -> "5" [] n = 6 -> "6" [] n = 7 -> "7"
      [] n = 8 -> "8" [] n = 9 -> "9"

RECURSIVE toString(_)
toString(n) ==
    IF n < 10 THEN <<DigitChar(n)>>
    ELSE toString(n \div 10) \o <<DigitChar(n % 10)>>

RECURSIVE padStart(_, _, _)
padStart(s, width, fill) ==
    IF Len(s) >= width THEN s ELSE padStart(<<fill>> \o s, width, fill)

\* const [h, m] = time.split(':').map(Number); return h * 60 + m;
getMinutes(time) ==
    LET parts == split(time, ":")
        h == Number(parts[1])
        m == Number(parts[2])
    IN  h * 60 + m

(***************************************************************************)
(* Date                                                                    *)
(***************************************************************************)
\* the instant's local wall-clock reading, in milliseconds
LocalMs(t) == t + tzOffset * MsPerMinute
\* getFullYear(), getMonth(), getDate() together: the local calendar day
LocalDay(t) == LocalMs(t) \div MsPerDay
getHours(t) == (LocalMs(t) \div MsPerHour) % 24
getMinutesOfHour(t) == (LocalMs(t) \div MsPerMinute) % 60
\* 1970-01-01 was a Thursday (getDay() = 4)
getDay(t) == (LocalDay(t) + 4) % 7
\* new Date(year, month, date): local midnight of a calendar day
LocalMidnight(day) == day * MsPerDay - tzOffset * MsPerMinute
\* target.setHours(h, m, 0, 0)
setHours(t, h, m) == LocalMidnight(LocalDay(t)) + h * MsPerHour + m * MsPerMinute
\* target.setDate(target.getDate() + 1)
addOneDay(t) == t + MsPerDay
\* new Date("YYYY-MM-DD"): a date-only string is read as UTC midnight
ParseDateOnly(day) == day * MsPerDay

(***************************************************************************)
(* Next-prayer resolver                                                    *)
(***************************************************************************)
\* variant: the Friday substitution is left out
MutSchedule_NoFriday(d, isFri) ==
    << [name |-> "Fajr", azan |-> d.prayers.fajr.azan, iqamah |-> d.prayers.fajr.iqamah],
       [name |-> "Zuhr", azan |-> d.prayers.zuhr.azan, iqamah |-> d.prayers.zuhr.iqamah],
       [name |-> "Asr", azan |-> d.prayers.asr.azan, iqamah |-> d.prayers.asr.iqamah],
       [name |-> "Maghrib", azan |-> d.prayers.maghrib.azan, iqamah |-> d.prayers.maghrib.iqamah],
       [name |-> "Isha", azan |-> d.prayers.isha.azan, iqamah |-> d.prayers.isha.iqamah] >>

\* the base list, then the Friday substitution of Zuhr by Jumma
schedule(d, isFri) ==
    LET base ==
          << [name |-> "Fajr", azan |-> d.prayers.fajr.azan, iqamah |-> d.prayers.fajr.iqamah],
             [name |-> "Zuhr", azan |-> d.prayers.zuhr.azan, iqamah |-> d.prayers.zuhr.iqamah],
             [name |-> "Asr", azan |-> d.prayers.asr.azan, iqamah |-> d.prayers.asr.iqamah],
             [name |-> "Maghrib", azan |-> d.prayers.maghrib.azan, iqamah |-> d.prayers.maghrib.iqamah],
             [name |-> "Isha", azan |-> d.prayers.isha.azan, iqamah |-> d.prayers.isha.iqamah] >>
    IN  IF isFri
        THEN [i \in 1..Len(base) |->
                IF base[i].name = "Zuhr"
                THEN [name |-> "Jumma", azan |-> d.jumma.khutbah, iqamah |-> d.jumma.jamaat]
                ELSE base[i]]
        ELSE base

\* variant: the comparison is not strict
MutIsNext_AtOrAfter(p, currentMinutes) == getMinutes(p.iqamah) >= currentMinutes

\* the findIndex predicate: p => getMinutes(p.iqamah) > currentMinutes
isNext(p, currentMinutes) == getMinutes(p.iqamah) > currentMinutes

\* variant: the last qualifying element instead of the first
MutFindIndex_Last(sched, currentMinutes) ==
    IF \E i \in 1..Len(sched) : isNext(sched[i], currentMinutes)
    THEN (CHOOSE i \in 1..Len(sched) :
            /\ isNext(sched[i], currentMinutes)
            /\ \A j \in (i + 1)..Len(sched) : ~isNext(sched[j], currentMinutes)) - 1
    ELSE -1

\* Array.prototype.findIndex, 0-based, -1 when no element qualifies
findIndex(sched, currentMinutes) ==
    IF \E i \in 1..Len(sched) : isNext(sched[i], currentMinutes)
    THEN (CHOOSE i \in 1..Len(sched) :
            /\ isNext(sched[i], currentMinutes)
            /\ \A j \in 1..(i - 1) : ~isNext(sched[j], currentMinutes)) - 1
    ELSE -1

\* variant: the current minute is counted as elapsed
MutElapsed_Inclusive(isTomorrow, currentMinutes, prevPrayerTime) ==
    (IF isTomorrow THEN currentMinutes + MinutesPerDay ELSE currentMinutes)
      - prevPrayerTime + 1

\* (isTomorrow ? currentMinutes + 24 * 60 : currentMinutes) - prevPrayerTime
elapsedOf(isTomorrow, currentMinutes, prevPrayerTime) ==
    (IF isTomorrow THEN currentMinutes + MinutesPerDay ELSE currentMinutes) - prevPrayerTime

\* variant: Math.min(100, ...) is left out
MutProgress_NoUpperClamp(elapsed, totalDuration) ==
    IF totalDuration > 0
    THEN IF elapsed * 100 < 0 THEN [num |-> 0, den |-> 1]
         ELSE [num |-> elapsed * 100, den |-> totalDuration]
    ELSE [num |-> 0, den |-> 1]

\* let progress = 0; if (totalDuration > 0) progress =
\* Math.min(100, Math.max(0, (elapsed / totalDuration) * 100)), as a fraction
progressOf(elapsed, totalDuration) ==
    IF totalDuration > 0
    THEN IF elapsed * 100 < 0 THEN [num |-> 0, den |-> 1]
         ELSE IF elapsed * 100 > 100 * totalDuration THEN [num |-> 100, den |-> 1]
         ELSE [num |-> elapsed * 100, den |-> totalDuration]
    ELSE [num |-> 0, den |-> 1]

\* const isFri = now.getDay() === 5, and the schedule built for that day
todaySchedule(d, now) == schedule(d, getDay(now) = Friday)

\* the body of the nextPrayerState memo for data d at instant now
resolve(d, now) ==
    LET currentMinutes == getHours(now) * 60 + getMinutesOfHour(now)
        sched == todaySchedule(d, now)
        found == findIndex(sched, currentMinutes)
        isTomorrow == found = -1
        nextIndex == IF found = -1 THEN 0 ELSE found
        next == sched[nextIndex + 1]
        prevIndex == IF nextIndex = 0 THEN 4 ELSE nextIndex - 1
        prevPrayerTime ==
            IF isTomorrow THEN getMinutes(sched[4 + 1].iqamah)
            ELSE getMinutes(sched[prevIndex + 1].iqamah)
                   - (IF nextIndex = 0 THEN MinutesPerDay ELSE 0)
        nextPrayerTime ==
            IF isTomorrow THEN getMinutes(next.iqamah) + MinutesPerDay
            ELSE getMinutes(next.iqamah)
        totalDuration == nextPrayerTime - prevPrayerTime
        elapsed == elapsedOf(isTomorrow, currentMinutes, prevPrayerTime)
    IN  [name |-> next.name, azan |-> next.azan, iqamah |-> next.iqamah,
         isTomorrow |-> isTomorrow,
         progress |-> progressOf(elapsed, totalDuration)]

nextPrayerState == IF data = NullData THEN NullData ELSE resolve(data, currentTime)

(***************************************************************************)
(* Countdown formatter                                                     *)
(***************************************************************************)
\* variant: the target is never moved to tomorrow
MutTarget_AlwaysToday(nps, now) ==
    LET parts == split(nps.iqamah, ":")
    IN  setHours(now, Number(parts[1]), Number(parts[2]))

\* the target instant: today's date, or tomorrow's, at the iqamah time
targetOf(nps, now) ==
    LET parts == split(nps.iqamah, ":")
        target == setHours(now, Number(parts[1]), Number(parts[2]))
    IN  IF nps.isTomorrow THEN addOneDay(target) ELSE target

\* the body of the countdownStr memo for a resolved state nps at instant now
countdown(nps, now) ==
    LET diff == targetOf(nps, now) - now
        hh == diff \div (MsPerSecond * 60 * 60)
        mm == (diff % (MsPerSecond * 60 * 60)) \div (MsPerSecond * 60)
        ss == (diff % (MsPerSecond * 60)) \div MsPerSecond
    IN  IF diff < 0 THEN <<"0", "0", ":", "0", "0", ":", "0", "0">>
        ELSE padStart(toString(hh), 2, "0") \o <<":">>
               \o padStart(toString(mm), 2, "0") \o <<":">>
               \o padStart(toString(ss), 2, "0")

countdownStr ==
    IF nextPrayerState = NullData THEN <<"-", "-", ":", "-", "-", ":", "-", "-">>
    ELSE countdown(nextPrayerState, currentTime)

(***************************************************************************)
(* Notice visibility filter                                                *)
(***************************************************************************)
\* useState<string | null>(null): no notice awaits a second click
NoId == "null"

\* a notice carries expiryDate only when one was entered (expiryDate?: string)
hasExpiry(n) == "expiryDate" \in DOMAIN n

\* the filter callback; today is local midnight of the current day
keepNotice(n, today) ==
    IF ~hasExpiry(n) THEN TRUE
    ELSE LET expiry == ParseDateOnly(n.expiryDate)
             expiryTimestamp == LocalMidnight(LocalDay(expiry))
         IN  expiryTimestamp >= today

\* variant: the comparator's operands exchanged (a.date - b.date, ascending)
MutInsert_Ascending(sorted, x) ==
    LET k == Cardinality({i \in 1..Len(sorted) : sorted[i].date <= x.date})
    IN  SubSeq(sorted, 1, k) \o <<x>> \o SubSeq(sorted, k + 1, Len(sorted))

\* where a stable descending sort puts x among the already sorted elements
insertByDate(sorted, x) ==
    LET k == Cardinality({i \in 1..Len(sorted) : sorted[i].date >= x.date})
    IN  SubSeq(sorted, 1, k) \o <<x>> \o SubSeq(sorted, k + 1, Len(sorted))

\* .sort((a, b) => new Date(b.date).getTime() - new Date(a.date).getTime())
RECURSIVE sortByDateDesc(_)
sortByDateDesc(s) ==
    IF Len(s) = 0 THEN <<>>
    ELSE insertByDate(sortByDateDesc(SubSeq(s, 1, Len(s) - 1)), s[Len(s)])

\* the body of the activeNotices memo for data d, with new Date() = now
filterNotices(d, now) ==
    IF d = NullData THEN <<>>
    ELSE LET today == LocalMidnight(LocalDay(now))
         IN  sortByDateDesc(SelectSeq(d.notices, LAMBDA n : keepNotice(n, today)))

(***************************************************************************)
(* Inputs: the states getCloudData can hand to the application             *)
(***************************************************************************)
DeviceOffsets == {-300, 0, 330}

INITIAL_DATA ==
    [prayers |->
       [fajr |-> [azan |-> HM("0","5","3","0"), iqamah |-> HM("0","6","0","0")],
        zuhr |-> [azan |-> HM("1","3","0","0"), iqamah |-> HM("1","3","3","0")],
        asr |-> [azan |-> HM("1","6","3","0"), iqamah |-> HM("1","7","0","0")],
        maghrib |-> [azan |-> HM("1","9","4","5"), iqamah |-> HM("1","9","5","5")],
        isha |-> [azan |-> HM("2","1","0","0"), iqamah |-> HM("2","1","3","0")]],
     jumma |-> [khutbah |-> HM("1","3","1","5"), jamaat |-> HM("1","3","4","5")],
     notices |-> << [id |-> "welcome-msg", date |-> 0, isImportant |-> FALSE] >>,
     links |-> << >>,
     users |-> << [id |-> "root-super-admin",
                   email |-> <<"d","a","r","z","a","i","d","7","0","0","@",
                               "g","m","a","i","l",".","c","o","m">>,
                   password |-> "darzaid123", role |-> "SUPER_ADMIN",
                   enabled |-> TRUE] >>,
     lastUpdated |-> 0]

\* Zuhr and Asr share one iqamah time, and so do Isha and the Friday jamaat
CoincidingData ==
    [INITIAL_DATA EXCEPT
       !.prayers.asr = [azan |-> HM("1","3","0","0"), iqamah |-> HM("1","3","3","0")],
       !.prayers.isha = [azan |-> HM("2","3","3","0"), iqamah |-> HM("2","3","5","9")],
       !.jumma = [khutbah |-> HM("1","3","0","0"), jamaat |-> HM("1","3","3","0")]]

\* Asr is entered earlier than Zuhr
OutOfOrderData ==
    [INITIAL_DATA EXCEPT
       !.prayers.fajr = [azan |-> HM("0","0","0","0"), iqamah |-> HM("0","0","0","5")],
       !.prayers.asr = [azan |-> HM("1","1","3","0"), iqamah |-> HM("1","2","0","0")]]

\* chronological on six days, but the Friday jamaat is later than Asr
LateJummaData ==
    [INITIAL_DATA EXCEPT
       !.jumma = [khutbah |-> HM("1","7","0","0"), jamaat |-> HM("1","7","3","0")]]

\* a stored Isha time outside the 24-hour range (the store holds any string)
OverflowData ==
    [INITIAL_DATA EXCEPT
       !.prayers.isha = [azan |-> HM("3","0","0","0"), iqamah |-> HM("3","0","3","0")]]

ResolverPayloads ==
    {INITIAL_DATA, CoincidingData, OutOfOrderData, LateJummaData, OverflowData}

NoticesA ==
    << [id |-> "n1", date |-> 1000, isImportant |-> FALSE, expiryDate |-> 1],
       [id |-> "n2", date |-> 2000, isImportant |-> TRUE],
       [id |-> "n3", date |-> 1500, isImportant |-> FALSE, expiryDate |-> 0] >>

NoticesB ==
    << [id |-> "n4", date |-> 500, isImportant |-> FALSE, expiryDate |-> 2],
       [id |-> "n5", date |-> 500, isImportant |-> TRUE, expiryDate |-> 1],
       [id |-> "n6", date |-> 90000000, isImportant |-> FALSE] >>

NoticePayloads ==
    {INITIAL_DATA, [INITIAL_DATA EXCEPT !.notices = NoticesA],
     [INITIAL_DATA EXCEPT !.notices = NoticesB]}

(***************************************************************************)
(* Persistence coordinator: services/firebase.ts                           *)
(***************************************************************************)
\* JSON.stringify of a state.  The states of the model hold strings,
\* booleans, arrays and plain objects only, none of them undefined, so the
\* text determines the document and is represented by it
stringify(v) == [text |-> "json", doc |-> v]

\* a stored or received text that is not JSON
Garbage == [text |-> "garbage"]

\* JSON.parse and response.json(): the document, or a SyntaxError
parse(t) ==
    IF t.text = "json" THEN [threw |-> FALSE, value |-> t.doc]
    ELSE [threw |-> TRUE]

\* { ...r, f: v } and r.f = v
withField(r, f, v) == [k \in DOMAIN r \cup {f} |-> IF k = f THEN v ELSE r[k]]

\* an object of an older writer, or of a foreign one, that lacks property f
withoutField(r, f) == [k \in DOMAIN r \ {f} |-> r[k]]

\* what fetch settles to: a rejection, or a response with a status and a body
NetworkError == [kind |-> "network"]
HttpResponse(status, body) == [kind |-> "http", status |-> status, body |-> body]

\* response.ok
ok(response) == response.status >= 200 /\ response.status <= 299

\* variant: a payload without links is passed on as it is
MutBackfill_None(d) == d

\* if (!data.links) data.links = []
backfillLinks(d) == IF "links" \in DOMAIN d THEN d ELSE withField(d, "links", << >>)

\* the try block of getCloudData: what it leaves in cloudData, or that it threw
remoteRead(response) ==
    IF response.kind = "network" THEN [threw |-> TRUE]
    ELSE IF ~ok(response) THEN [threw |-> FALSE, cloudData |-> NullData]
    ELSE LET json == parse(response.body)
         IN  IF json.threw THEN [threw |-> TRUE]
             ELSE IF "prayers" \in DOMAIN json.value /\ "users" \in DOMAIN json.value
                  THEN [threw |-> FALSE, cloudData |-> backfillLinks(json.value)]
                  ELSE [threw |-> FALSE, cloudData |-> NullData]

\* variant: no catch around the remote read
MutTryRemoteRead_NoCatch(response) == remoteRead(response)

\* try { ... } catch (err) { console.warn(...) }: cloudData stays null
tryRemoteRead(response) ==
    LET r == remoteRead(response)
    IN  [threw |-> FALSE, cloudData |-> IF r.threw THEN NullData ELSE r.cloudData]

\* variant: the cache is not consulted
MutCacheRead_IgnoreCache(cached) == [threw |-> FALSE, found |-> FALSE]

\* the fallback to localStorage: the parsed cache, nothing found, or a throw
cacheRead(cached) ==
    IF cached = NullData THEN [threw |-> FALSE, found |-> FALSE]
    ELSE LET parsed == parse(cached)
         IN  IF parsed.threw THEN [threw |-> TRUE]
             ELSE [threw |-> FALSE, found |-> TRUE,
                   value |-> backfillLinks(parsed.value)]

\* try { ... } catch (e) { console.warn('Corrupt local cache, resetting.') }
tryCacheRead(cached) ==
    LET r == cacheRead(cached)
    IN  IF r.threw THEN [threw |-> FALSE, found |-> FALSE] ELSE r

\* variant: the state handed out by the fallback is written back to the cache
MutCacheAfterFallback_WriteBack(cached, returned) == stringify(returned)

\* the fallback path holds no localStorage.setItem
cacheAfterFallback(cached, returned) == cached

\* getCloudData from the moment fetch settles to response, with cached the
\* content of localStorage: how the promise settles, the state it resolves
\* to and the content of localStorage afterwards
getCloudData(response, cached) ==
    LET r == tryRemoteRead(response)
    IN  IF r.threw THEN [settled |-> "rejected", cache |-> cached]
        ELSE IF r.cloudData # NullData
        THEN [settled |-> "fulfilled", returns |-> r.cloudData,
              cache |-> stringify(r.cloudData)]
        ELSE LET c == tryCacheRead(cached)
             IN  IF c.threw THEN [settled |-> "rejected", cache |-> cached]
                 ELSE LET returned == IF c.found THEN c.value ELSE INITIAL_DATA
                      IN  [settled |-> "fulfilled", returns |-> returned,
                           cache |-> cacheAfterFallback(cached, returned)]

\* const updatedData = { ...data, lastUpdated: new Date().toISOString() }:
\* the new object, and the caller's object after the statement
stamp(d, now) == [updatedData |-> withField(d, "lastUpdated", now), data |-> d]

\* variant: the request carries the caller's state, not the stamped copy
MutRequestBody_Unstamped(d, updatedData) == stringify(d)

\* body: JSON.stringify(updatedData)
requestBody(d, updatedData) == stringify(updatedData)

\* the try block of syncToCloud once fetch has settled to response
remoteWrite(response) ==
    IF response.kind = "network" THEN [threw |-> TRUE]
    ELSE IF ~ok(response)
         THEN IF response.status = 404 THEN [threw |-> FALSE]
              ELSE [threw |-> TRUE]
         ELSE [threw |-> FALSE]

\* variant: the error of the remote write is thrown on to the caller
MutTryRemoteWrite_Rethrow(response) == remoteWrite(response)

\* try { ... } catch (err) { console.error('Non-critical Sync Error:', err) }
tryRemoteWrite(response) ==
    LET r == remoteWrite(response)
    IN  IF r.threw THEN [threw |-> FALSE] ELSE r

\* how the promise of syncToCloud settles
syncToCloudSettled(response) ==
    IF tryRemoteWrite(response).threw THEN "rejected" ELSE "fulfilled"

(***************************************************************************)
(* Operations                                                              *)
(***************************************************************************)
\* the calls of the coordinator this device can have under way at once
Slots == {1, 2}

\* the slot used by behaviours that start a call when the previous one has
\* settled
Serial == {1}

\* no second device has the dashboard open
Away == [pc |-> "away"]

\* a slot with no call under way
Idle == [kind |-> "idle", pc |-> "idle"]

\* no call has settled yet
None == [kind |-> "none"]

\* the call in slot c has not settled yet
InFlight(c) == calls[c].pc # "idle"

\* formState.prayers is an object of its own, as after
\* JSON.parse(JSON.stringify(latest))
Apart == [data |-> FALSE, saves |-> {}]

\* a new call takes the first slot that holds no call under way
FreeSlot(c) == ~InFlight(c) /\ \A d \in Slots : d < c => InFlight(d)

\* syncToCloud runs from localStorage.setItem to fetch without yielding: no
\* other callback of the page runs in between
TaskRunning == \E c \in Slots : calls[c].pc = "cached"

\* variant: a state older than the one in memory is dropped
MutSetLatest_KeepNewer(latest) ==
    IF data # NullData /\ latest.lastUpdated < data.lastUpdated
    THEN UNCHANGED <<data, formState, aliased, activeNotices>>
    ELSE /\ data' = latest
         /\ formState' = parse(stringify(latest)).value
         /\ aliased' = Apart
         /\ activeNotices' = filterNotices(latest, currentTime)

\* setData(latest); setFormState(JSON.parse(JSON.stringify(latest))) and the
\* render that follows, which recomputes the activeNotices memo
setLatest(latest) ==
    /\ data' = latest
    /\ formState' = parse(stringify(latest)).value
    /\ aliased' = Apart
    /\ activeNotices' = filterNotices(latest, currentTime)

\* setInterval(() => setCurrentTime(new Date()), 1000): the next sample of
\* the clock, step milliseconds after the previous one; a timeout due before
\* that sample has run by then
timeTimer(step) ==
    /\ ~TaskRunning
    /\ \A due \in timeouts : currentTime + step <= due
    /\ currentTime + step < MaxDay * MsPerDay
    /\ currentTime' = currentTime + step
    /\ UNCHANGED <<data, tzOffset, authVars, peer, activeNotices, uiVars, syncVars>>

\* refreshAppData, with latest the state getCloudData resolved to; the render
\* that follows setData recomputes the activeNotices memo
refreshAppData(latest) ==
    /\ setLatest(latest)
    /\ UNCHANGED <<currentTime, tzOffset, authVars, peer, deletingId, timeouts, alertShown, syncVars>>

\* the instants at which the application may be started: useState(new Date())
StartTimes(step) == {k * step : k \in 0..((MaxDay * MsPerDay - 1) \div step)}

\* the state after the first render: nothing loaded yet
FirstRender ==
    /\ data = NullData
    /\ activeNotices = <<>>
    /\ formState = NullData
    /\ deletingId = NoId
    /\ alertShown = ""
    /\ calls = [c \in Slots |-> Idle]
    /\ lastSettled = None
    /\ currentUser = NullData
    /\ view = "PUBLIC"
    /\ loginError = ""
    /\ peer = Away
    /\ aliased = Apart
    /\ timeouts = {}

InitAt(step) ==
    /\ FirstRender
    /\ session = NullData
    /\ currentTime \in StartTimes(step)
    /\ tzOffset \in DeviceOffsets
    /\ remote = NullData
    /\ cache = NullData

Init == InitAt(TickMs)

Next ==
    \/ timeTimer(TickMs)
    \/ \E latest \in ResolverPayloads : refreshAppData(latest)

Spec == Init /\ [][Next]_vars

NextNotices ==
    \/ timeTimer(NoticeTickMs)
    \/ \E latest \in NoticePayloads : refreshAppData(latest)

InitNotices == InitAt(NoticeTickMs)

SpecNotices == InitNotices /\ [][NextNotices]_vars

(***************************************************************************)
(* The coordinator at work: one device, the key-value store, the network   *)
(***************************************************************************)
\* milliseconds between two samples of the clock explored for the coordinator
SyncTickMs == 216000000

\* a state another device stored, and a state this device cached earlier
CloudData == [INITIAL_DATA EXCEPT !.jumma.jamaat = HM("1","4","0","0")]
CachedData == [INITIAL_DATA EXCEPT !.jumma.jamaat = HM("1","3","5","0")]

\* what the store may hold when the page opens: nothing, a text that is not
\* JSON, a state, a state of a writer that knew no links, a document that is
\* not a state
RemoteContents ==
    {NullData, Garbage, stringify(CloudData),
     stringify(withoutField(CloudData, "links")),
     stringify(withoutField(CloudData, "users"))}

\* what localStorage may hold when the page opens: nothing, a damaged text,
\* a state the coordinator cached, a state cached before links existed
CacheContents ==
    {NullData, Garbage, stringify(CachedData),
     stringify(withoutField(CachedData, "links"))}

\* how the store or the network may treat a write: stored, 404 (bucket not
\* provisioned), another error status, no answer
Outcomes == {"ok", "notFound", "error", "network"}

\* how they may treat a read, which tells 404 from no other error status
ReadOutcomes == {"ok", "notFound", "network"}

\* the khutbah times typed into the dashboard
KhutbahEntries == {HM("1","3","0","0")}

\* onChange of the khutbah input: setFormState({...formState, jumma: {...}})
editJummaKhutbah(v) ==
    /\ ~TaskRunning
    /\ formState # NullData
    /\ formState.jumma.khutbah # v
    /\ formState' = [formState EXCEPT !.jumma.khutbah = v]
    /\ UNCHANGED <<appVars, authVars, peer, deletingId, timeouts, alertShown, aliased, syncVars>>

\* the saved state a reload follows at once: the save settled last and no
\* other call of this device is under way
Preceding ==
    IF lastSettled.kind = "save" /\ \A d \in Slots : ~InFlight(d)
    THEN lastSettled ELSE None

\* refreshAppData up to its await: getCloudData has called fetch(CLOUD_URL)
refreshStart(c) ==
    /\ ~TaskRunning
    /\ FreeSlot(c)
    /\ calls' = [calls EXCEPT ![c] =
                   [kind |-> "load", pc |-> "fetching", caller |-> "refresh",
                    follows |-> Preceding]]
    /\ UNCHANGED <<appVars, authVars, peer, uiVars, remote, cache, lastSettled>>

\* the loads of this device whose GET has been answered and that have not
\* settled yet
Answered == {d \in Slots : calls[d].kind = "load" /\ calls[d].pc = "responded"}

\* the GET reaches the store, or does not
serveGet(c, outcome) ==
    /\ calls[c].kind = "load" /\ calls[c].pc = "fetching"
    /\ outcome = "ok" => remote # NullData
    /\ LET response ==
             CASE outcome = "ok" -> HttpResponse(200, remote)
               [] outcome = "notFound" -> HttpResponse(404, Garbage)
               [] OTHER -> NetworkError
       IN  calls' = [calls EXCEPT ![c] =
                       withField(withField(withField(@, "pc", "responded"),
                                           "response", response),
                                 "readAfter", Answered)]
    /\ UNCHANGED <<appVars, authVars, peer, uiVars, remote, cache, lastSettled>>

\* fetch has settled: the rest of getCloudData, then the rest of
\* refreshAppData (try ... finally, without a catch)
getCloudDataSettles(c) ==
    /\ ~TaskRunning
    /\ calls[c].kind = "load" /\ calls[c].pc = "responded"
    /\ calls[c].caller = "refresh"
    /\ LET g == getCloudData(calls[c].response, cache)
           settled == [kind |-> "load",
                       caller |-> calls[c].caller, follows |-> calls[c].follows,
                       response |-> calls[c].response, settled |-> g.settled,
                       returns |-> IF g.settled = "fulfilled" THEN g.returns
                                   ELSE NullData,
                       readAfter |-> calls[c].readAfter,
                       overtaken |-> /\ lastSettled.kind = "load"
                                     /\ "readAfter" \in DOMAIN lastSettled
                                     /\ c \in lastSettled.readAfter]
       IN  /\ cache' = g.cache
           /\ calls' = [d \in Slots |->
                          IF d = c THEN Idle
                          ELSE IF "readAfter" \in DOMAIN calls[d]
                          THEN withField(calls[d], "readAfter",
                                         calls[d].readAfter \ {c})
                          ELSE calls[d]]
           /\ lastSettled' = settled
           /\ IF g.settled = "fulfilled"
              THEN setLatest(g.returns)
              ELSE UNCHANGED <<data, formState, aliased, activeNotices>>
    /\ UNCHANGED <<currentTime, tzOffset, authVars, peer, deletingId, timeouts, alertShown, remote>>

\* syncToCloud(d) up to the write of localStorage, called by caller with d
syncToCloudStart(c, caller, d) ==
    LET s == stamp(d, currentTime)
    IN  /\ cache' = stringify(s.updatedData)
        /\ calls' = [calls EXCEPT ![c] =
                       [kind |-> "save", pc |-> "cached", caller |-> caller,
                        data |-> s.data, updatedData |-> s.updatedData]]

\* Confirm & Push: handleSyncUpdates up to fetch
handleSyncUpdates(c) ==
    /\ ~TaskRunning
    /\ formState # NullData
    /\ FreeSlot(c)
    /\ syncToCloudStart(c, "push", formState)
    /\ formState' = stamp(formState, currentTime).data
    /\ aliased' = [aliased EXCEPT !.saves = @ \cup {c}]
    /\ UNCHANGED <<appVars, authVars, peer, deletingId, timeouts, alertShown, remote, lastSettled>>

\* the delay of the setTimeout of handleDeleteNotice
ConfirmMs == 3000

\* variant: the first click on the delete button removes the notice
MutDelete_OneClick(c, id) ==
    /\ ~TaskRunning
    /\ data # NullData
    /\ IF id # NoId
       THEN /\ FreeSlot(c)
            /\ LET updatedNotices == SelectSeq(data.notices, LAMBDA n : n.id # id)
                   updatedData == withField(data, "notices", updatedNotices)
                   after == stamp(updatedData, currentTime).data
               IN  /\ data' = after
                   /\ formState' = after
                   /\ aliased' = IF aliased.data THEN aliased
                                 ELSE [data |-> TRUE, saves |-> {}]
                   /\ activeNotices' = filterNotices(after, currentTime)
                   /\ syncToCloudStart(c, "delete", updatedData)
            /\ deletingId' = NoId
            /\ UNCHANGED <<currentTime, tzOffset, authVars, peer, alertShown, timeouts, remote, lastSettled>>
       ELSE /\ c = 1
            /\ deletingId' = id
            /\ timeouts' = timeouts \cup {currentTime + ConfirmMs}
            /\ UNCHANGED <<appVars, authVars, peer, formState, aliased, alertShown, syncVars>>

\* the delete button of notice id: the first click asks for confirmation,
\* the second removes the notice and saves (the notice form is not modelled)
handleDeleteNotice(c, id) ==
    /\ ~TaskRunning
    /\ data # NullData
    /\ IF deletingId = id
       THEN /\ FreeSlot(c)
            /\ LET updatedNotices == SelectSeq(data.notices, LAMBDA n : n.id # id)
                   updatedData == withField(data, "notices", updatedNotices)
                   after == stamp(updatedData, currentTime).data
               IN  /\ data' = after
                   /\ formState' = after
                   /\ aliased' = IF aliased.data THEN aliased
                                 ELSE [data |-> TRUE, saves |-> {}]
                   /\ activeNotices' = filterNotices(after, currentTime)
                   /\ syncToCloudStart(c, "delete", updatedData)
            /\ deletingId' = NoId
            /\ UNCHANGED <<currentTime, tzOffset, authVars, peer, alertShown, timeouts, remote, lastSettled>>
       ELSE /\ c = 1
            /\ deletingId' = id
            /\ timeouts' = timeouts \cup {currentTime + ConfirmMs}
            /\ UNCHANGED <<appVars, authVars, peer, formState, aliased, alertShown, syncVars>>

\* setTimeout(() => setDeletingId(null), 3000): the callback of a timer that
\* is due before the next sample of the clock runs; no click cancels a timer
deleteTimeout(step) ==
    /\ ~TaskRunning
    /\ \E due \in timeouts :
         /\ due < currentTime + step
         /\ timeouts' = timeouts \ {due}
    /\ deletingId' = NoId
    /\ UNCHANGED <<appVars, authVars, peer, formState, aliased, alertShown, syncVars>>

\* syncToCloud: fetch(CLOUD_URL, { method: 'POST', body: ... }) is called
syncToCloudPost(c) ==
    /\ calls[c].kind = "save" /\ calls[c].pc = "cached"
    /\ calls' = [calls EXCEPT ![c] =
                   withField(withField(@, "pc", "posting"), "body",
                             requestBody(calls[c].data, calls[c].updatedData))]
    /\ UNCHANGED <<appVars, authVars, peer, uiVars, remote, cache, lastSettled>>

\* variant: the store keeps a state it already holds
MutStoreAfter_KeepFirst(previous, body) ==
    IF previous # NullData /\ previous # Garbage THEN previous ELSE body

\* what the store holds under the key after a POST of body that it accepts
storeAfter(previous, body) == body

\* the POST reaches the store, which stores the body, or fails
servePost(c, outcome) ==
    /\ calls[c].kind = "save" /\ calls[c].pc = "posting"
    /\ remote' = IF outcome = "ok" THEN storeAfter(remote, calls[c].body) ELSE remote
    /\ LET response ==
             CASE outcome = "ok" -> HttpResponse(200, calls[c].body)
               [] outcome = "notFound" -> HttpResponse(404, Garbage)
               [] outcome = "error" -> HttpResponse(500, Garbage)
               [] OTHER -> NetworkError
       IN  calls' = [calls EXCEPT ![c] =
                       withField(withField(@, "pc", "responded"),
                                 "response", response)]
    /\ UNCHANGED <<appVars, authVars, peer, uiVars, cache, lastSettled>>

\* the alert of handleSyncUpdates once syncToCloud has settled
pushAlert(settled) ==
    IF settled = "fulfilled"
    THEN "Cloud synchronization successful. All devices updated."
    ELSE "Network error. Could not sync with the cloud."

\* fetch has settled: the rest of syncToCloud, then the rest of the caller
\* (handleSyncUpdates or handleDeleteNotice)
syncToCloudSettles(c) ==
    /\ ~TaskRunning
    /\ calls[c].kind = "save" /\ calls[c].pc = "responded"
    /\ calls[c].caller \in {"push", "delete"}
    /\ LET outcome == syncToCloudSettled(calls[c].response)
           settled == [kind |-> "save", caller |-> calls[c].caller,
                       updatedData |-> calls[c].updatedData,
                       response |-> calls[c].response, settled |-> outcome]
       IN  /\ calls' = [calls EXCEPT ![c] = Idle]
           /\ lastSettled' = settled
           /\ IF calls[c].caller = "push"
              THEN /\ alertShown' = pushAlert(outcome)
                   /\ IF outcome = "fulfilled"
                      THEN /\ data' = calls[c].data
                           /\ activeNotices' = filterNotices(calls[c].data, currentTime)
                      ELSE UNCHANGED <<data, activeNotices>>
              ELSE UNCHANGED <<data, activeNotices, alertShown>>
           /\ aliased' = IF calls[c].caller = "push" /\ outcome = "fulfilled"
                         THEN [data |-> c \in aliased.saves,
                               saves |-> aliased.saves \ {c}]
                         ELSE [aliased EXCEPT !.saves = @ \ {c}]
    /\ UNCHANGED <<currentTime, tzOffset, authVars, peer, formState, deletingId, timeouts, remote, cache>>

InitSync ==
    /\ FirstRender
    /\ session = NullData
    /\ currentTime \in StartTimes(SyncTickMs)
    /\ tzOffset = 0
    /\ remote \in RemoteContents
    /\ cache \in CacheContents

NextSync ==
    \/ timeTimer(SyncTickMs)
    \/ \E v \in KhutbahEntries : editJummaKhutbah(v)
    \/ \E c \in Serial : refreshStart(c)
    \/ \E c \in Serial, outcome \in ReadOutcomes : serveGet(c, outcome)
    \/ \E c \in Serial : getCloudDataSettles(c)
    \/ \E c \in Serial : handleSyncUpdates(c)
    \/ \E c \in Serial : \E id \in {"welcome-msg"} : handleDeleteNotice(c, id)
    \/ deleteTimeout(SyncTickMs)
    \/ \E c \in Serial : syncToCloudPost(c)
    \/ \E c \in Serial, outcome \in Outcomes : servePost(c, outcome)
    \/ \E c \in Serial : syncToCloudSettles(c)

SpecSync == InitSync /\ [][NextSync]_vars

(***************************************************************************)
(* Sessions: services/authService.ts and the session monitor of App.tsx    *)
(***************************************************************************)
\* 20 * 60 * 1000
SESSION_TIMEOUT_MS == 1200000

\* localStorage.removeItem(SESSION_TOKEN)
clearSession == NullData

\* variant: the timer is reset to ten minutes
MutExtendSession_HalfTimeout(stored, now) ==
    IF stored = NullData THEN stored
    ELSE LET parsed == parse(stored)
         IN  IF parsed.threw THEN stored
             ELSE LET user == IF "user" \in DOMAIN parsed.value
                              THEN parsed.value.user ELSE parsed.value
                  IN  stringify([user |-> user,
                                 expiry |-> now + (SESSION_TIMEOUT_MS \div 2)])

\* extendSession with Date.now() = now: the content of the session slot
\* afterwards
extendSession(stored, now) ==
    IF stored = NullData THEN stored
    ELSE LET parsed == parse(stored)
         IN  IF parsed.threw THEN stored
             ELSE LET user == IF "user" \in DOMAIN parsed.value
                              THEN parsed.value.user ELSE parsed.value
                  IN  stringify([user |-> user,
                                 expiry |-> now + SESSION_TIMEOUT_MS])

\* variant: the session is still valid at the instant of its expiry
MutIsSessionValid_Inclusive(stored, now) ==
    IF stored = NullData THEN FALSE
    ELSE LET parsed == parse(stored)
         IN  IF parsed.threw THEN FALSE
             ELSE IF ~("expiry" \in DOMAIN parsed.value /\ parsed.value.expiry # 0)
                     /\ "email" \in DOMAIN parsed.value
                     /\ parsed.value.email # << >>
                  THEN TRUE
                  ELSE "expiry" \in DOMAIN parsed.value
                       /\ now <= parsed.value.expiry

\* isSessionValid with Date.now() = now
isSessionValid(stored, now) ==
    IF stored = NullData THEN FALSE
    ELSE LET parsed == parse(stored)
         IN  IF parsed.threw THEN FALSE
             ELSE IF ~("expiry" \in DOMAIN parsed.value /\ parsed.value.expiry # 0)
                     /\ "email" \in DOMAIN parsed.value
                     /\ parsed.value.email # << >>
                  THEN TRUE
                  ELSE "expiry" \in DOMAIN parsed.value
                       /\ now < parsed.value.expiry

\* variant: a record of the old format counts as expired
MutNormalize_LegacyExpired(parsed, now) ==
    IF "user" \in DOMAIN parsed /\ "expiry" \in DOMAIN parsed THEN parsed
    ELSE [user |-> parsed, expiry |-> now - 1]

\* the session a stored record stands for: itself, or, for the old format
\* (the bare user), a fresh session of that user
normalize(parsed, now) ==
    IF "user" \in DOMAIN parsed /\ "expiry" \in DOMAIN parsed THEN parsed
    ELSE [user |-> parsed, expiry |-> now + SESSION_TIMEOUT_MS]

\* getActiveSession with Date.now() = now: the user it returns (NullData for
\* null) and the content of the session slot afterwards
getActiveSession(stored, now) ==
    IF stored = NullData THEN [user |-> NullData, session |-> stored]
    ELSE LET parsed == parse(stored)
         IN  IF parsed.threw THEN [user |-> NullData, session |-> clearSession]
             ELSE LET s == normalize(parsed.value, now)
                  IN  IF now > s.expiry
                      THEN [user |-> NullData, session |-> clearSession]
                      ELSE [user |-> s.user,
                            session |-> extendSession(stored, now)]

\* const sessionUser = { ...user }; delete sessionUser.password
\* variant: the user is stored as it was read
MutSanitized_Keep(user) == user

sanitized(user) == withoutField(user, "password")

\* what the click listener of the session monitor leaves in the session slot
\* when a button is clicked
afterClick == IF currentUser # NullData THEN extendSession(session, currentTime)
              ELSE session

\* handleActivity: click, keydown, touchstart or scroll while the monitor
\* is installed
handleActivity ==
    /\ ~TaskRunning
    /\ currentUser # NullData
    /\ session' = extendSession(session, currentTime)
    /\ UNCHANGED <<appVars, uiVars, syncVars, currentUser, view, loginError, peer>>

\* variant: the check unsets the user and leaves the view as it is
MutSessionCheck_KeepView ==
    /\ ~TaskRunning
    /\ currentUser # NullData
    /\ IF ~isSessionValid(session, currentTime)
       THEN /\ session' = clearSession
            /\ currentUser' = NullData
            /\ UNCHANGED <<view, alertShown>>
       ELSE UNCHANGED <<session, currentUser, view, alertShown>>
    /\ UNCHANGED <<appVars, formState, aliased, deletingId, timeouts, syncVars, loginError, peer>>

\* the callback of checkInterval (every 10 seconds while a user is set)
sessionCheck ==
    /\ ~TaskRunning
    /\ currentUser # NullData
    /\ IF ~isSessionValid(session, currentTime)
       THEN /\ session' = clearSession
            /\ currentUser' = NullData
            /\ IF view = "DASHBOARD"
               THEN /\ view' = "PUBLIC"
                    /\ alertShown' = "Session expired due to inactivity (20 min)."
               ELSE UNCHANGED <<view, alertShown>>
       ELSE UNCHANGED <<session, currentUser, view, alertShown>>
    /\ UNCHANGED <<appVars, formState, aliased, deletingId, timeouts, syncVars, loginError, peer>>

\* the button under the public board: Admin Panel / Return to Dashboard
openAdmin ==
    /\ ~TaskRunning
    /\ view = "PUBLIC"
    /\ view' = IF currentUser # NullData THEN "DASHBOARD" ELSE "LOGIN"
    /\ session' = afterClick
    /\ UNCHANGED <<appVars, uiVars, syncVars, currentUser, loginError, peer>>

\* Return to Display (login form) and BACK (dashboard)
backToPublic ==
    /\ ~TaskRunning
    /\ view # "PUBLIC"
    /\ view' = "PUBLIC"
    /\ session' = afterClick
    /\ UNCHANGED <<appVars, uiVars, syncVars, currentUser, loginError, peer>>

\* LOGOUT
handleLogout ==
    /\ ~TaskRunning
    /\ view = "DASHBOARD"
    /\ session' = clearSession
    /\ currentUser' = NullData
    /\ view' = "PUBLIC"
    /\ UNCHANGED <<appVars, uiVars, syncVars, loginError, peer>>

\* the page is opened or reloaded: every useState starts afresh, localStorage
\* is kept, requests under way are dropped; the initialization effect calls
\* refreshAppData, which calls fetch, and getActiveSession
pageLoad ==
    /\ ~TaskRunning
    /\ data' = NullData
    /\ activeNotices' = << >>
    /\ formState' = NullData
    /\ aliased' = Apart
    /\ deletingId' = NoId
    /\ timeouts' = {}
    /\ alertShown' = ""
    /\ loginError' = ""
    /\ view' = "PUBLIC"
    /\ lastSettled' = None
    /\ calls' = [c \in Slots |->
                   IF c = 1 THEN [kind |-> "load", pc |-> "fetching",
                                  caller |-> "refresh", follows |-> None]
                   ELSE Idle]
    /\ LET active == getActiveSession(session, currentTime)
       IN  /\ session' = active.session
           /\ currentUser' = active.user
    /\ UNCHANGED <<currentTime, tzOffset, remote, cache, peer>>

\* milliseconds between two samples of the clock explored for the sessions,
\* and the number of samples
SessionTickMs == 600000
SessionSpan == 4

\* the first instant explored for the sessions
SessionStart == MaxDay * MsPerDay - SessionSpan * SessionTickMs

RootUser == INITIAL_DATA.users[1]

\* an administrator registered earlier (id: `admin-${Date.now()}`)
EarlierAdmin ==
    [id |-> "admin-1700000000000",
     email |-> <<"i","m","a","m","@","m",".","o","r","g">>,
     password |-> "minbar", role |-> "ADMIN", enabled |-> TRUE]

\* what the session slot may hold when the page opens: nothing, a damaged
\* text, a session written by a login at that instant, the bare user an
\* older version stored
StoredSessions(now) ==
    {NullData, Garbage,
     stringify([user |-> sanitized(RootUser), expiry |-> now + SESSION_TIMEOUT_MS]),
     stringify(sanitized(EarlierAdmin))}

\* another tab of the same origin removes the session (its own logout or
\* its own check): localStorage is shared between the tabs
otherTabClears ==
    /\ session # NullData
    /\ session' = clearSession
    /\ UNCHANGED <<appVars, uiVars, syncVars, currentUser, view, loginError, peer>>

InitSession ==
    /\ FirstRender
    /\ currentTime = SessionStart
    /\ tzOffset = 0
    /\ remote = NullData
    /\ cache = NullData
    /\ session \in StoredSessions(currentTime)

NextSession ==
    \/ timeTimer(SessionTickMs)
    \/ pageLoad
    \/ handleActivity
    \/ sessionCheck
    \/ openAdmin
    \/ backToPublic
    \/ handleLogout
    \/ otherTabClears
    \/ \E c \in Serial, outcome \in ReadOutcomes : serveGet(c, outcome)
    \/ \E c \in Serial : getCloudDataSettles(c)

SpecSession == InitSession /\ [][NextSession]_vars

\* setInterval keeps calling the check as long as a user is set
SpecSessionLive == SpecSession /\ WF_vars(sessionCheck)

(***************************************************************************)
(* Users: authenticate, registerCloudAdmin, updateCloudUser and the forms  *)
(* that call them                                                          *)
(***************************************************************************)
UpperCase == <<"A","B","C","D","E","F","G","H","I","J","K","L","M",
               "N","O","P","Q","R","S","T","U","V","W","X","Y","Z">>
LowerCase == <<"a","b","c","d","e","f","g","h","i","j","k","l","m",
               "n","o","p","q","r","s","t","u","v","w","x","y","z">>

\* String.prototype.toLowerCase on the characters of an address
toLowerCase(s) ==
    [i \in 1..Len(s) |->
       IF IndexOf(UpperCase, s[i]) = 0 THEN s[i]
       ELSE LowerCase[IndexOf(UpperCase, s[i])]]

\* String.prototype.trim
RECURSIVE trim(_)
trim(s) ==
    IF s = << >> THEN s
    ELSE IF Head(s) = " " THEN trim(Tail(s))
    ELSE IF s[Len(s)] = " " THEN trim(SubSeq(s, 1, Len(s) - 1))
    ELSE s

\* Array.prototype.findIndex, 0 for -1
firstIndex(users, Test(_)) ==
    IF \E i \in 1..Len(users) : Test(users[i])
    THEN CHOOSE i \in 1..Len(users) :
           Test(users[i]) /\ \A j \in 1..(i - 1) : ~Test(users[j])
    ELSE 0

\* variant: a disabled account logs in
MutAuthenticate_IgnoreEnabled(loaded, email, password, now, stored) ==
    LET i == firstIndex(loaded.users,
                        LAMBDA u : /\ toLowerCase(u.email) = trim(toLowerCase(email))
                                   /\ u.password = password)
    IN  IF i # 0
        THEN [user |-> sanitized(loaded.users[i]),
              session |-> stringify([user |-> sanitized(loaded.users[i]),
                                     expiry |-> now + SESSION_TIMEOUT_MS])]
        ELSE [user |-> NullData, session |-> stored]

\* authenticate once getCloudData has resolved to loaded: the user it
\* returns (NullData for null) and the content of the session slot
authenticate(loaded, email, password, now, stored) ==
    LET i == firstIndex(loaded.users,
                        LAMBDA u : /\ toLowerCase(u.email) = trim(toLowerCase(email))
                                   /\ u.password = password)
    IN  IF i # 0 /\ loaded.users[i].enabled
        THEN [user |-> sanitized(loaded.users[i]),
              session |-> stringify([user |-> sanitized(loaded.users[i]),
                                     expiry |-> now + SESSION_TIMEOUT_MS])]
        ELSE [user |-> NullData, session |-> stored]

\* registerCloudAdmin between its two awaits: the error it throws, or the
\* state it hands to syncToCloud
registerCloudAdmin(loaded, email, password, now) ==
    IF \E i \in 1..Len(loaded.users) :
         toLowerCase(loaded.users[i].email) = trim(toLowerCase(email))
    THEN [threw |-> TRUE, message |-> "An admin with this email already exists."]
    ELSE [threw |-> FALSE,
          data |-> withField(loaded, "users",
                     Append(loaded.users,
                            [id |-> "admin-" \o ToString(now), email |-> trim(email),
                             password |-> password, role |-> "ADMIN",
                             enabled |-> TRUE]))]

\* variant: the address is not compared with those of the other users
MutUpdate_NoEmailCheck(loaded, userId, updates) ==
    LET userIndex == firstIndex(loaded.users, LAMBDA u : u.id = userId)
        newEmail == trim(updates.email)
        applied == IF updates.email # << >>
                   THEN [updates EXCEPT !.email = newEmail] ELSE updates
    IN  IF userIndex = 0
        THEN [threw |-> TRUE, message |-> "User not found."]
        ELSE [threw |-> FALSE, updates |-> applied,
              data |-> [loaded EXCEPT !.users[userIndex] =
                          [@ EXCEPT !.email = applied.email,
                                    !.password = applied.password]]]

\* updateCloudUser between its two awaits, with updates = {email, password}:
\* the error it throws, or the state it hands to syncToCloud and the
\* updates as it has rewritten them
updateCloudUser(loaded, userId, updates) ==
    LET userIndex == firstIndex(loaded.users, LAMBDA u : u.id = userId)
        newEmail == trim(updates.email)
        applied == IF updates.email # << >>
                   THEN [updates EXCEPT !.email = newEmail] ELSE updates
    IN  IF userIndex = 0
        THEN [threw |-> TRUE, message |-> "User not found."]
        ELSE IF /\ updates.email # << >>
                /\ \E i \in 1..Len(loaded.users) :
                     /\ toLowerCase(loaded.users[i].email) = toLowerCase(newEmail)
                     /\ loaded.users[i].id # userId
        THEN [threw |-> TRUE, message |-> "Email already taken by another admin."]
        ELSE [threw |-> FALSE, updates |-> applied,
              data |-> [loaded EXCEPT !.users[userIndex] =
                          [@ EXCEPT !.email = applied.email,
                                    !.password = applied.password]]]

\* { ...user, ...updates }
merged(user, updates) ==
    [k \in DOMAIN user \cup DOMAIN updates |->
       IF k \in DOMAIN updates THEN updates[k] ELSE user[k]]

\* the end of updateCloudUser, after syncToCloud: the session slot
sessionAfterUpdate(stored, userId, updates, now) ==
    LET active == getActiveSession(stored, now)
    IN  IF active.user # NullData /\ active.user.id = userId
        THEN stringify([user |-> sanitized(merged(active.user, updates)),
                        expiry |-> now + SESSION_TIMEOUT_MS])
        ELSE active.session

\* an account the super administrator has disabled
Suspended ==
    [id |-> "admin-1700000000001",
     email |-> <<"o","l","d","@","m",".","o","r","g">>,
     password |-> "former", role |-> "ADMIN", enabled |-> FALSE]

\* an account that has been removed from the store since this device
\* cached the state
Departed ==
    [id |-> "admin-1600000000000",
     email |-> <<"e","x","@","m",".","o","r","g">>,
     password |-> "gone", role |-> "ADMIN", enabled |-> TRUE]

\* the store, where the super administrator has changed the password, and
\* the copy this device cached before
StoreData ==
    [CloudData EXCEPT !.users =
       <<[RootUser EXCEPT !.password = "rotated"], EarlierAdmin, Suspended>>]
CacheData == [CachedData EXCEPT !.users = <<RootUser, Departed>>]

ImamUpper == <<"I","M","A","M","@","m",".","o","r","g">>
ImamPadded == <<" ">> \o EarlierAdmin.email \o <<" ">>
NewEmail == <<"k","@","m",".","o","r","g">>

\* what is typed into the login form
Attempts ==
    {[email |-> ImamUpper, password |-> "minbar"],
     [email |-> ImamPadded, password |-> "minbar"],
     [email |-> EarlierAdmin.email, password |-> "Minbar"],
     [email |-> NewEmail, password |-> "minbar"],
     [email |-> Suspended.email, password |-> "former"],
     [email |-> RootUser.email, password |-> "rotated"],
     [email |-> RootUser.email, password |-> "darzaid123"],
     [email |-> Departed.email, password |-> "gone"]}

\* what registerCloudAdmin is called with
Applications ==
    {[email |-> << >>, password |-> "khutbah"],
     [email |-> NewEmail, password |-> ""],
     [email |-> ImamUpper, password |-> "khutbah"],
     [email |-> NewEmail, password |-> "khutbah"]}

\* the addresses updateCloudUser is called with
Edits == {<< >>, ImamUpper}

\* the users of a stored text, none when it holds no state
listed(text) ==
    IF text # NullData /\ text # Garbage /\ "users" \in DOMAIN text.doc
    THEN text.doc.users ELSE << >>

\* Date.now() has moved on since the last registration: `admin-${Date.now()}`
\* would be a new id
Unminted ==
    \A users \in {listed(remote), listed(cache)} :
      \A i \in 1..Len(users) : users[i].id # "admin-" \o ToString(currentTime)

\* the users this device has cached that are not as they were when the
\* page was first opened
Touched ==
    Cardinality({i \in 1..Len(listed(cache)) :
                   listed(cache)[i] \notin
                     {RootUser, StoreData.users[1], EarlierAdmin, Suspended, Departed}})

\* the number of users the administrators of this device change or add
MaxEdits == 2

\* the login form is submitted: handleLogin up to fetch
handleLogin(c, attempt) ==
    /\ ~TaskRunning
    /\ view = "LOGIN"
    /\ FreeSlot(c)
    /\ calls' = [calls EXCEPT ![c] =
                   [kind |-> "load", pc |-> "fetching", caller |-> "login",
                    email |-> attempt.email, password |-> attempt.password]]
    /\ UNCHANGED <<appVars, authVars, peer, uiVars, remote, cache, lastSettled>>

\* fetch has settled: the rest of getCloudData, of authenticate and of
\* handleLogin
authenticateSettles(c) ==
    /\ ~TaskRunning
    /\ calls[c].kind = "load" /\ calls[c].pc = "responded"
    /\ calls[c].caller = "login"
    /\ LET g == getCloudData(calls[c].response, cache)
           a == authenticate(g.returns, calls[c].email, calls[c].password,
                             currentTime, session)
       IN  /\ cache' = g.cache
           /\ session' = a.session
           /\ IF a.user # NullData
              THEN /\ currentUser' = a.user
                   /\ view' = "DASHBOARD"
                   /\ loginError' = ""
              ELSE /\ loginError' = "Invalid masjid credentials or disabled account."
                   /\ UNCHANGED <<currentUser, view>>
           /\ lastSettled' = [kind |-> "login", email |-> calls[c].email,
                              password |-> calls[c].password, user |-> a.user]
    /\ calls' = [calls EXCEPT ![c] = Idle]
    /\ UNCHANGED <<appVars, peer, uiVars, remote>>

\* the registration form is submitted: handleRegisterAdmin up to fetch, or
\* to its end when registerCloudAdmin throws at once
handleRegisterAdmin(c, application) ==
    /\ ~TaskRunning
    /\ view = "DASHBOARD"
    /\ currentUser # NullData /\ currentUser.role = "SUPER_ADMIN"
    /\ FreeSlot(c)
    /\ Unminted
    /\ Touched < MaxEdits
    /\ IF application.email = << >> \/ application.password = ""
       THEN /\ alertShown' = "Email and password are required."
            /\ lastSettled' = [kind |-> "register", threw |-> TRUE,
                               email |-> application.email,
                               password |-> application.password]
            /\ UNCHANGED calls
       ELSE /\ calls' = [calls EXCEPT ![c] =
                           [kind |-> "load", pc |-> "fetching", caller |-> "register",
                            email |-> application.email,
                            password |-> application.password]]
            /\ UNCHANGED <<alertShown, lastSettled>>
    /\ UNCHANGED <<appVars, authVars, peer, formState, aliased, deletingId, timeouts, remote, cache>>

\* fetch has settled: the rest of getCloudData, then registerCloudAdmin up
\* to the write of localStorage by syncToCloud, or to its throw
registerLoaded(c) ==
    /\ ~TaskRunning
    /\ calls[c].kind = "load" /\ calls[c].pc = "responded"
    /\ calls[c].caller = "register"
    /\ LET g == getCloudData(calls[c].response, cache)
           r == registerCloudAdmin(g.returns, calls[c].email, calls[c].password,
                                   currentTime)
       IN  IF r.threw
           THEN /\ cache' = g.cache
                /\ calls' = [calls EXCEPT ![c] = Idle]
                /\ alertShown' = r.message
                /\ lastSettled' = [kind |-> "register", threw |-> TRUE,
                                   email |-> calls[c].email,
                                   password |-> calls[c].password]
           ELSE /\ syncToCloudStart(c, "register", r.data)
                /\ UNCHANGED <<alertShown, lastSettled>>
    /\ UNCHANGED <<appVars, authVars, peer, formState, aliased, deletingId, timeouts, remote>>

\* the form of the edit dialog, opened on the i-th user of the list, is
\* submitted with another address and the password the dialog was filled
\* with: handleSaveUser up to fetch
handleSaveUser(c, i, email) ==
    /\ ~TaskRunning
    /\ view = "DASHBOARD"
    /\ currentUser # NullData
    /\ data # NullData
    /\ i \in 1..Len(data.users)
    /\ currentUser.role = "SUPER_ADMIN" \/ data.users[i].id = currentUser.id
    /\ FreeSlot(c)
    /\ Touched < MaxEdits
    /\ calls' = [calls EXCEPT ![c] =
                   [kind |-> "load", pc |-> "fetching", caller |-> "update",
                    userId |-> data.users[i].id,
                    updates |-> [email |-> email,
                                 password |-> data.users[i].password]]]
    /\ UNCHANGED <<appVars, authVars, peer, uiVars, remote, cache, lastSettled>>

\* fetch has settled: the rest of getCloudData, then updateCloudUser up to
\* the write of localStorage by syncToCloud, or to its throw
updateLoaded(c) ==
    /\ ~TaskRunning
    /\ calls[c].kind = "load" /\ calls[c].pc = "responded"
    /\ calls[c].caller = "update"
    /\ LET g == getCloudData(calls[c].response, cache)
           r == updateCloudUser(g.returns, calls[c].userId, calls[c].updates)
       IN  IF r.threw
           THEN /\ cache' = g.cache
                /\ calls' = [calls EXCEPT ![c] = Idle]
                /\ alertShown' = r.message
                /\ lastSettled' = [kind |-> "update", threw |-> TRUE,
                                   userId |-> calls[c].userId,
                                   updates |-> calls[c].updates]
           ELSE /\ LET s == stamp(r.data, currentTime)
                   IN  /\ cache' = stringify(s.updatedData)
                       /\ calls' = [calls EXCEPT ![c] =
                                      [kind |-> "save", pc |-> "cached",
                                       caller |-> "update", data |-> s.data,
                                       updatedData |-> s.updatedData,
                                       userId |-> calls[c].userId,
                                       updates |-> r.updates]]
                /\ UNCHANGED <<alertShown, lastSettled>>
    /\ UNCHANGED <<appVars, authVars, peer, formState, aliased, deletingId, timeouts, remote>>

\* fetch has settled: the rest of syncToCloud, the rest of registerCloudAdmin
\* or updateCloudUser, then the form's handler up to the fetch of
\* refreshAppData
userSaveSettles(c) ==
    /\ ~TaskRunning
    /\ calls[c].kind = "save" /\ calls[c].pc = "responded"
    /\ calls[c].caller \in {"register", "update"}
    /\ lastSettled' = [kind |-> "save", caller |-> calls[c].caller,
                       settled |-> syncToCloudSettled(calls[c].response)]
    /\ IF calls[c].caller = "update"
       THEN /\ session' = sessionAfterUpdate(session, calls[c].userId,
                                             calls[c].updates, currentTime)
            /\ calls' = [calls EXCEPT ![c] =
                           [kind |-> "load", pc |-> "fetching",
                            caller |-> "updated", userId |-> calls[c].userId]]
       ELSE /\ UNCHANGED session
            /\ calls' = [calls EXCEPT ![c] =
                           [kind |-> "load", pc |-> "fetching",
                            caller |-> "registered"]]
    /\ UNCHANGED <<appVars, peer, uiVars, remote, cache, currentUser, view, loginError>>

\* fetch has settled: the rest of getCloudData and of refreshAppData, then
\* the rest of handleRegisterAdmin or handleSaveUser
userRefreshSettles(c) ==
    /\ ~TaskRunning
    /\ calls[c].kind = "load" /\ calls[c].pc = "responded"
    /\ calls[c].caller \in {"registered", "updated"}
    /\ LET g == getCloudData(calls[c].response, cache)
       IN  /\ cache' = g.cache
           /\ setLatest(g.returns)
           /\ lastSettled' = [kind |-> "load", caller |-> calls[c].caller,
                              settled |-> g.settled]
    /\ IF calls[c].caller = "updated"
       THEN /\ alertShown' = "Credentials updated successfully."
            /\ IF currentUser # NullData /\ currentUser.id = calls[c].userId
               THEN LET active == getActiveSession(session, currentTime)
                    IN  /\ session' = active.session
                        /\ currentUser' = IF active.user # NullData
                                          THEN active.user ELSE currentUser
               ELSE UNCHANGED <<session, currentUser>>
       ELSE /\ alertShown' = "New admin registered successfully."
            /\ UNCHANGED <<session, currentUser>>
    /\ calls' = [calls EXCEPT ![c] = Idle]
    /\ UNCHANGED <<currentTime, tzOffset, peer, deletingId, timeouts, remote, view, loginError>>

\* the stores when the page opens: the store reachable or not yet written,
\* the local copy present or not
InitStores ==
    /\ FirstRender
    /\ currentTime = SessionStart
    /\ tzOffset = 0
    /\ remote \in {NullData, stringify(StoreData)}
    /\ cache \in {NullData, stringify(CacheData)}

\* nobody has logged in on this device
InitLogin == InitStores /\ session = NullData

NextLogin ==
    \/ pageLoad
    \/ openAdmin
    \/ backToPublic
    \/ handleLogout
    \/ \E c \in Serial, outcome \in ReadOutcomes : serveGet(c, outcome)
    \/ \E c \in Serial : getCloudDataSettles(c)
    \/ \E c \in Serial, attempt \in Attempts : handleLogin(c, attempt)
    \/ \E c \in Serial : authenticateSettles(c)

SpecLogin == InitLogin /\ [][NextLogin]_vars

\* the same page with the clock, the session monitor and a second tab
NextView ==
    \/ NextLogin
    \/ timeTimer(SessionTickMs)
    \/ handleActivity
    \/ sessionCheck
    \/ otherTabClears

SpecView == InitLogin /\ [][NextView]_vars

\* the same page with the activity listener and the edit dialog of the
\* users tab
NextCreds ==
    \/ pageLoad
    \/ openAdmin
    \/ handleLogout
    \/ \E c \in Serial, outcome \in {"ok", "network"} : serveGet(c, outcome)
    \/ \E c \in Serial : getCloudDataSettles(c)
    \/ \E c \in Serial, attempt \in {a \in Attempts : a.password = "minbar"} :
          handleLogin(c, attempt)
    \/ \E c \in Serial : authenticateSettles(c)
    \/ timeTimer(SessionTickMs)
    \/ handleActivity
    \/ \E c \in Serial, i \in 1..2, email \in Edits : handleSaveUser(c, i, email)
    \/ \E c \in Serial : updateLoaded(c)
    \/ \E c \in Serial : syncToCloudPost(c)
    \/ \E c \in Serial, outcome \in {"ok", "network"} : servePost(c, outcome)
    \/ \E c \in Serial : userSaveSettles(c)
    \/ \E c \in Serial : userRefreshSettles(c)

SpecCreds == InitLogin /\ [][NextCreds]_vars

\* the super administrator has logged in on this device
InitUsers ==
    /\ InitStores
    /\ session = stringify([user |-> sanitized(RootUser),
                            expiry |-> currentTime + SESSION_TIMEOUT_MS])

NextUsers ==
    \/ pageLoad
    \/ openAdmin
    \/ \E c \in Serial, outcome \in {"ok", "network"} : serveGet(c, outcome)
    \/ \E c \in Serial : getCloudDataSettles(c)
    \/ \E c \in Serial, application \in Applications : handleRegisterAdmin(c, application)
    \/ \E c \in Serial : registerLoaded(c)
    \/ \E c \in Serial, i \in 1..2, email \in Edits : handleSaveUser(c, i, email)
    \/ \E c \in Serial : updateLoaded(c)
    \/ \E c \in Serial : syncToCloudPost(c)
    \/ \E c \in Serial, outcome \in {"ok", "network"} : servePost(c, outcome)
    \/ \E c \in Serial : userSaveSettles(c)
    \/ \E c \in Serial : userRefreshSettles(c)

SpecUsers == InitUsers /\ [][NextUsers]_vars

(***************************************************************************)
(* Two writers, overlapping reloads                                        *)
(***************************************************************************)
\* what the administrator of another device enters as the time of jamaat
PeerJamaat == HM("1","4","3","0")

\* another device loads the state the store holds
peerLoads ==
    /\ peer = Away
    /\ remote # NullData /\ remote # Garbage
    /\ peer' = [pc |-> "loaded", base |-> remote.doc, data |-> remote.doc]
    /\ UNCHANGED <<appVars, uiVars, syncVars, authVars>>

\* its administrator changes the time of jamaat in the form
peerEdits ==
    /\ peer.pc = "loaded"
    /\ peer' = [peer EXCEPT !.pc = "edited", !.data.jumma.jamaat = PeerJamaat]
    /\ UNCHANGED <<appVars, uiVars, syncVars, authVars>>

\* and pushes: the syncToCloud of that device, its POST accepted
peerSaves ==
    /\ peer.pc = "edited"
    /\ LET s == stamp(peer.data, currentTime)
       IN  /\ remote' = storeAfter(remote, requestBody(s.data, s.updatedData))
           /\ peer' = [peer EXCEPT !.pc = "saved", !.data = s.updatedData]
    /\ UNCHANGED <<appVars, uiVars, authVars, cache, calls, lastSettled>>

\* the store holds a state, nothing is cached, nobody is logged in
InitRace ==
    /\ FirstRender
    /\ session = NullData
    /\ currentTime = SessionStart
    /\ tzOffset = 0
    /\ remote = stringify(CloudData)
    /\ cache = NullData

NextRace ==
    \/ \E v \in KhutbahEntries : editJummaKhutbah(v)
    \/ \E c \in Slots : refreshStart(c)
    \/ \E c \in Slots : serveGet(c, "ok")
    \/ \E c \in Slots : getCloudDataSettles(c)
    \/ \E c \in Slots : handleSyncUpdates(c)
    \/ \E c \in Slots : syncToCloudPost(c)
    \/ \E c \in Slots : servePost(c, "ok")
    \/ \E c \in Slots : syncToCloudSettles(c)
    \/ peerLoads
    \/ peerEdits
    \/ peerSaves

SpecRace == InitRace /\ [][NextRace]_vars

(***************************************************************************)
(* The dashboard of a logged-in user: App.tsx                              *)
(***************************************************************************)
\* the state with a second notice, posted from the dashboard
Announced ==
    [CloudData EXCEPT !.notices =
       <<[id |-> "1700000000000", date |-> 0, isImportant |-> TRUE]>> \o @]

\* the dashboard of user at the instant start: the page has loaded stored
\* from the store and the user has logged in
Dashboard(user, stored, start) ==
    LET g == getCloudData(HttpResponse(200, stringify(stored)), NullData)
    IN  /\ currentTime = start
        /\ tzOffset = 0
        /\ remote = stringify(stored)
        /\ cache = g.cache
        /\ data = g.returns
        /\ formState = parse(stringify(g.returns)).value
        /\ activeNotices = filterNotices(g.returns, start)
        /\ aliased = Apart
        /\ timeouts = {}
        /\ deletingId = NoId
        /\ alertShown = ""
        /\ calls = [c \in Slots |-> Idle]
        /\ lastSettled = None
        /\ session = stringify([user |-> sanitized(user),
                                expiry |-> start + SESSION_TIMEOUT_MS])
        /\ currentUser = sanitized(user)
        /\ view = "DASHBOARD"
        /\ loginError = ""
        /\ peer = Away

\* the seconds of the clock the deletions are followed for
DeleteSpan == 4

\* the notices the delete buttons of the dashboard belong to
NoticeIds == {"welcome-msg", "1700000000000"}

InitDelete ==
    Dashboard(RootUser, Announced, MaxDay * MsPerDay - DeleteSpan * MsPerSecond)

NextDelete ==
    \/ timeTimer(MsPerSecond)
    \/ \E c \in Serial, id \in NoticeIds : handleDeleteNotice(c, id)
    \/ deleteTimeout(MsPerSecond)
    \/ \E c \in Serial : syncToCloudPost(c)
    \/ \E c \in Serial, outcome \in {"ok", "network"} : servePost(c, outcome)
    \/ \E c \in Serial : syncToCloudSettles(c)
    \/ \E c \in Serial : refreshStart(c)
    \/ \E c \in Serial, outcome \in {"ok", "network"} : serveGet(c, outcome)
    \/ \E c \in Serial : getCloudDataSettles(c)

SpecDelete == InitDelete /\ [][NextDelete]_vars

\* the azan times typed into the dashboard
PrayerEntries == {HM("0","5","0","0")}

\* onChange of the azan input of Fajr: const next = { ...formState };
\* next.prayers[p].azan = value; setFormState(next).  The copy is shallow:
\* the assignment writes into the prayers object of formState, which every
\* holder of that object sees
editPrayer(v) ==
    /\ ~TaskRunning
    /\ formState # NullData
    /\ formState.prayers.fajr.azan # v
    /\ formState' = [formState EXCEPT !.prayers.fajr.azan = v]
    /\ data' = IF aliased.data THEN [data EXCEPT !.prayers.fajr.azan = v]
               ELSE data
    /\ calls' = [c \in Slots |->
                   IF c \in aliased.saves
                   THEN [calls[c] EXCEPT !.data.prayers.fajr.azan = v]
                   ELSE calls[c]]
    /\ UNCHANGED <<currentTime, tzOffset, activeNotices, authVars, peer,
                   deletingId, timeouts, alertShown, aliased, remote, cache,
                   lastSettled>>

\* the notice form is submitted with a new notice: onSubmit up to fetch
handleNoticeSubmit(c, isImportant) ==
    /\ ~TaskRunning
    /\ formState # NullData
    /\ FreeSlot(c)
    /\ \A i \in 1..Len(formState.notices) :
         formState.notices[i].id # ToString(currentTime)
    /\ LET notice == [id |-> ToString(currentTime), date |-> currentTime,
                      isImportant |-> isImportant]
           updated == withField(formState, "notices",
                                <<notice>> \o formState.notices)
       IN  syncToCloudStart(c, "notice", updated)
    /\ aliased' = [aliased EXCEPT !.saves = @ \cup {c}]
    /\ UNCHANGED <<appVars, authVars, peer, formState, deletingId, timeouts,
                   alertShown, remote, lastSettled>>

\* fetch has settled: the rest of syncToCloud, then the rest of onSubmit
\* (no try around the await)
noticeSaveSettles(c) ==
    /\ ~TaskRunning
    /\ calls[c].kind = "save" /\ calls[c].pc = "responded"
    /\ calls[c].caller = "notice"
    /\ LET outcome == syncToCloudSettled(calls[c].response)
       IN  /\ lastSettled' = [kind |-> "save", caller |-> "notice",
                              updatedData |-> calls[c].updatedData,
                              response |-> calls[c].response,
                              settled |-> outcome]
           /\ IF outcome = "fulfilled"
              THEN /\ data' = calls[c].data
                   /\ formState' = calls[c].data
                   /\ activeNotices' = filterNotices(calls[c].data, currentTime)
                   /\ aliased' = [data |-> TRUE,
                                  saves |-> IF c \in aliased.saves
                                            THEN aliased.saves \ {c} ELSE {}]
                   /\ alertShown' = "Notice published globally."
              ELSE /\ aliased' = [aliased EXCEPT !.saves = @ \ {c}]
                   /\ UNCHANGED <<data, formState, activeNotices, alertShown>>
    /\ calls' = [calls EXCEPT ![c] = Idle]
    /\ UNCHANGED <<currentTime, tzOffset, authVars, peer, deletingId, timeouts,
                   remote, cache>>

InitForm == Dashboard(RootUser, CloudData, SessionStart)

NextForm ==
    \/ \E v \in PrayerEntries : editPrayer(v)
    \/ \E v \in KhutbahEntries : editJummaKhutbah(v)
    \/ \E c \in Serial : handleSyncUpdates(c)
    \/ \E c \in Serial, isImportant \in BOOLEAN : handleNoticeSubmit(c, isImportant)
    \/ \E c \in Serial, id \in {"welcome-msg"} : handleDeleteNotice(c, id)
    \/ deleteTimeout(SyncTickMs)
    \/ \E c \in Serial : syncToCloudPost(c)
    \/ \E c \in Serial, outcome \in {"ok", "network"} : servePost(c, outcome)
    \/ \E c \in Serial : syncToCloudSettles(c)
    \/ \E c \in Serial : noticeSaveSettles(c)
    \/ \E c \in Serial : refreshStart(c)
    \/ \E c \in Serial, outcome \in {"ok", "network"} : serveGet(c, outcome)
    \/ \E c \in Serial : getCloudDataSettles(c)

SpecForm == InitForm /\ [][NextForm]_vars

\* the super administrator, on another device, presses Disable on the row
\* of the earlier administrator: updateCloudUser(u.id, { enabled: false })
\* of that device, its POST accepted
peerDisables ==
    /\ remote # NullData /\ remote # Garbage
    /\ \E i \in 1..Len(remote.doc.users) :
         /\ remote.doc.users[i].id = EarlierAdmin.id
         /\ remote.doc.users[i].enabled
         /\ LET s == stamp([remote.doc EXCEPT !.users[i].enabled = FALSE],
                           currentTime)
            IN  remote' = storeAfter(remote, requestBody(s.data, s.updatedData))
    /\ UNCHANGED <<appVars, uiVars, authVars, peer, cache, calls, lastSettled>>

\* the earlier administrator has logged in on this device before
InitRoles ==
    /\ FirstRender
    /\ currentTime = SessionStart
    /\ tzOffset = 0
    /\ remote = stringify(StoreData)
    /\ cache \in {NullData, stringify(CacheData)}
    /\ session = stringify([user |-> sanitized(EarlierAdmin),
                            expiry |-> currentTime + SESSION_TIMEOUT_MS])

NextRoles ==
    \/ timeTimer(SessionTickMs)
    \/ pageLoad
    \/ openAdmin
    \/ sessionCheck
    \/ \E c \in Serial, outcome \in {"ok", "network"} : serveGet(c, outcome)
    \/ \E c \in Serial : getCloudDataSettles(c)
    \/ \E v \in KhutbahEntries : editJummaKhutbah(v)
    \/ \E c \in Serial : handleSyncUpdates(c)
    \/ \E c \in Serial : syncToCloudPost(c)
    \/ \E c \in Serial, outcome \in {"ok", "network"} : servePost(c, outcome)
    \/ \E c \in Serial : syncToCloudSettles(c)
    \/ peerDisables

SpecRoles == InitRoles /\ [][NextRoles]_vars

(***************************************************************************)
(* Vocabulary of the properties, stated apart from the resolver's code     *)
(***************************************************************************)
Loaded == data # NullData

\* the minute of the day a well-formed HH:MM string names
MinuteValue(time) ==
    (DigitVal(time[1]) * 10 + DigitVal(time[2])) * 60
      + DigitVal(time[4]) * 10 + DigitVal(time[5])

\* minutes since local midnight at the sampled instant
NowMinutes == (LocalMs(currentTime) \div MsPerMinute) % MinutesPerDay

IsFridayNow == (LocalDay(currentTime) + 4) % 7 = 5

\* the schedule the resolver works on at the sampled instant
Sched == todaySchedule(data, currentTime)

\* the iqamah minutes of a schedule, in schedule order
IqamahMinutes(s) == [i \in 1..Len(s) |-> MinuteValue(s[i].iqamah)]

MinOf(S) == CHOOSE x \in S : \A y \in S : x <= y

\* iqamah minutes m in non-decreasing / strictly increasing schedule order
Chronological(m) == \A i \in 1..(Len(m) - 1) : m[i] <= m[i + 1]

StrictlyChronological(m) == \A i \in 1..(Len(m) - 1) : m[i] < m[i + 1]

SameEntry(r, e) == r.name = e.name /\ r.azan = e.azan /\ r.iqamah = e.iqamah

\* position in schedule s of the entry the resolver returned as r
NextPos(s, r) == CHOOSE i \in 1..Len(s) : s[i].name = r.name

PrevPos(s, r) == IF NextPos(s, r) = 1 THEN Len(s) ELSE NextPos(s, r) - 1

\* minutes from previous.iqamah to next.iqamah, across midnight for Fajr
Duration(s, r) ==
    LET m == IqamahMinutes(s)
        n == NextPos(s, r)
    IN  IF n = 1 THEN m[1] + MinutesPerDay - m[Len(s)] ELSE m[n] - m[n - 1]

(***************************************************************************)
(* C1: the resolver returns the first entry, in schedule order, whose      *)
(* iqamah minute is strictly greater than the current minute, not flagged  *)
(* tomorrow; at exactly an entry's iqamah minute of a strictly increasing  *)
(* schedule the following entry is returned; when no entry is later it     *)
(* returns the first entry, Fajr, flagged tomorrow.                        *)
(***************************************************************************)
C1_FirstLaterEntry ==
    Loaded =>
      LET r == nextPrayerState
          s == Sched
          m == IqamahMinutes(s)
          cm == NowMinutes
          later == {i \in 1..Len(s) : m[i] > cm}
      IN  /\ Len(s) = 5
          /\ IF later # {}
             THEN SameEntry(r, s[MinOf(later)]) /\ r.isTomorrow = FALSE
             ELSE SameEntry(r, s[1]) /\ r.name = "Fajr" /\ r.isTomorrow = TRUE
          /\ \A i \in 1..5 :
               (StrictlyChronological(m) /\ cm = m[i]) =>
                  SameEntry(r, s[(i % 5) + 1]) /\ r.isTomorrow = (i = 5)

\* exactly at Zuhr's iqamah (13:30) the resolver already announces Asr
C1_Witness ==
    /\ data = INITIAL_DATA
    /\ ~IsFridayNow
    /\ NowMinutes = 13 * 60 + 30
    /\ nextPrayerState.name = "Asr"
    /\ nextPrayerState.isTomorrow = FALSE

(***************************************************************************)
(* C2 as claimed: for any schedule and any instant strictly between the    *)
(* iqamah times of two cyclically consecutive entries, the later one is    *)
(* returned, flagged tomorrow only when it is tomorrow's Fajr.             *)
(***************************************************************************)
BetweenConsecutive(s, m, cm, r) ==
    /\ \A i \in 1..4 :
         (m[i] < cm /\ cm < m[i + 1]) => SameEntry(r, s[i + 1]) /\ r.isTomorrow = FALSE
    /\ cm > m[5] => SameEntry(r, s[1]) /\ r.isTomorrow = TRUE
    /\ cm < m[1] => SameEntry(r, s[1]) /\ r.isTomorrow = FALSE

C2_AnySchedule ==
    Loaded => BetweenConsecutive(Sched, IqamahMinutes(Sched), NowMinutes, nextPrayerState)

(***************************************************************************)
(* C2 amended: the same, for every schedule whose iqamah times are in      *)
(* non-decreasing schedule order.                                          *)
(***************************************************************************)
C2_ChronologicalSchedule ==
    Loaded =>
      LET m == IqamahMinutes(Sched)
      IN  Chronological(m) => BetweenConsecutive(Sched, m, NowMinutes, nextPrayerState)

\* the default schedule at 14:00 on a day that is not a Friday: Asr, today
C2_Witness ==
    /\ data = INITIAL_DATA
    /\ ~IsFridayNow
    /\ NowMinutes = 14 * 60
    /\ nextPrayerState.name = "Asr"
    /\ nextPrayerState.isTomorrow = FALSE

(***************************************************************************)
(* C3: on a Friday the schedule given to the resolver has Jumma (khutbah,  *)
(* jamaat) in Zuhr's place, the second, and no Zuhr; on any other day it   *)
(* has Zuhr there and no Jumma; the other four entries are the same.       *)
(***************************************************************************)
C3_FridaySubstitution ==
    Loaded =>
      LET p == data.prayers
          s == Sched
      IN  /\ Len(s) = 5
          /\ s[1] = [name |-> "Fajr", azan |-> p.fajr.azan, iqamah |-> p.fajr.iqamah]
          /\ s[3] = [name |-> "Asr", azan |-> p.asr.azan, iqamah |-> p.asr.iqamah]
          /\ s[4] = [name |-> "Maghrib", azan |-> p.maghrib.azan, iqamah |-> p.maghrib.iqamah]
          /\ s[5] = [name |-> "Isha", azan |-> p.isha.azan, iqamah |-> p.isha.iqamah]
          /\ IF IsFridayNow
             THEN /\ s[2] = [name |-> "Jumma", azan |-> data.jumma.khutbah,
                             iqamah |-> data.jumma.jamaat]
                  /\ \A i \in 1..5 : s[i].name # "Zuhr"
             ELSE /\ s[2] = [name |-> "Zuhr", azan |-> p.zuhr.azan, iqamah |-> p.zuhr.iqamah]
                  /\ \A i \in 1..5 : s[i].name # "Jumma"

\* a Friday on which the resolver announces Jumma with the jamaat time
C3_Witness ==
    /\ data = INITIAL_DATA
    /\ IsFridayNow
    /\ nextPrayerState.name = "Jumma"
    /\ nextPrayerState.iqamah = INITIAL_DATA.jumma.jamaat

(***************************************************************************)
(* C4: for every schedule, misconfigured ones included, progress lies in   *)
(* [0, 100], and it is 0 whenever the duration from previous.iqamah to     *)
(* next.iqamah is not positive.                                            *)
(***************************************************************************)
C4_ProgressRange ==
    Loaded =>
      LET r == nextPrayerState
      IN  /\ r.progress.den > 0
          /\ 0 <= r.progress.num
          /\ r.progress.num <= 100 * r.progress.den
          /\ Duration(Sched, r) <= 0 => r.progress.num = 0

\* the stored Isha time 30:30 makes the night's duration negative
C4_Witness ==
    /\ Loaded
    /\ Duration(Sched, nextPrayerState) <= 0
    /\ nextPrayerState.progress.num = 0

(***************************************************************************)
(* C5 as claimed: for every chronological schedule, progress is            *)
(* 100 * (minutes since previous.iqamah) / (minutes from previous.iqamah   *)
(* to next.iqamah); after Isha and before midnight the minutes are counted *)
(* from today's Isha iqamah (30 of 510 at 22:00 on the default schedule).  *)
(***************************************************************************)
\* every iqamah minute is a minute of the day
WithinDay(m) == \A i \in 1..Len(m) : m[i] < MinutesPerDay

\* minutes since the last occurrence of previous.iqamah
ElapsedSincePrevious(s, r, cm) ==
    LET m == IqamahMinutes(s)
        n == NextPos(s, r)
    IN  IF r.isTomorrow THEN cm - m[Len(s)]
        ELSE IF n = 1 THEN cm + MinutesPerDay - m[Len(s)]
        ELSE cm - m[n - 1]

C5_ProgressIsElapsedShare ==
    Loaded =>
      LET r == nextPrayerState
          s == Sched
          m == IqamahMinutes(s)
      IN  (StrictlyChronological(m) /\ WithinDay(m)) =>
             r.progress.num * Duration(s, r)
               = 100 * ElapsedSincePrevious(s, r, NowMinutes) * r.progress.den

(***************************************************************************)
(* C6 as claimed: from one tick to the next within one inter-prayer        *)
(* interval, the Isha-to-Fajr interval across midnight included, progress  *)
(* never decreases.                                                        *)
(***************************************************************************)
\* the resolver's result one tick later (the device offset does not change)
ResolvedNext == resolve(data', currentTime')

C6_ProgressNeverDecreases ==
    [][ ( /\ Loaded
          /\ data' = data
          /\ tzOffset' = tzOffset
          /\ currentTime' > currentTime
          /\ StrictlyChronological(IqamahMinutes(Sched))
          /\ WithinDay(IqamahMinutes(Sched))
          /\ ResolvedNext.name = nextPrayerState.name )
        => nextPrayerState.progress.num * ResolvedNext.progress.den
             <= ResolvedNext.progress.num * nextPrayerState.progress.den ]_vars

(***************************************************************************)
(* C7 as claimed: at the instant equal to the previous prayer's iqamah,    *)
(* the first instant of an interval, the progress reported is 0.           *)
(***************************************************************************)
C7_ZeroAtPreviousIqamah ==
    Loaded =>
      LET r == nextPrayerState
          s == Sched
          m == IqamahMinutes(s)
      IN  (StrictlyChronological(m) /\ WithinDay(m) /\ NowMinutes = m[PrevPos(s, r)])
             => r.progress.num = 0

(***************************************************************************)
(* C8 as claimed: at the instant equal to the iqamah of the prayer that    *)
(* was next, the progress reported by the resolver is 100.                 *)
(***************************************************************************)
C8_HundredAtNextIqamah ==
    Loaded =>
      LET r == nextPrayerState
          m == IqamahMinutes(Sched)
      IN  (StrictlyChronological(m) /\ WithinDay(m)) =>
             \A i \in 1..Len(m) :
                NowMinutes = m[i] => r.progress.num = 100 * r.progress.den

(***************************************************************************)
(* C8 amended: while the next prayer is today's, the instant is strictly   *)
(* before its iqamah and progress is strictly below 100; in the last       *)
(* minute before that iqamah it is 100 * (total - 1) / total.  At the      *)
(* iqamah instant itself the resolver reports the following interval.      *)
(***************************************************************************)
C8_BelowHundredBeforeIqamah ==
    Loaded =>
      LET r == nextPrayerState
          s == Sched
          m == IqamahMinutes(s)
          total == Duration(s, r)
      IN  r.isTomorrow = FALSE =>
             /\ NowMinutes < m[NextPos(s, r)]
             /\ r.progress.num < 100 * r.progress.den
             /\ (NowMinutes = m[NextPos(s, r)] - 1 /\ total > 0) =>
                   r.progress.num * total = 100 * (total - 1) * r.progress.den

\* 16:59 on the default schedule: Asr is next, 209 of 210 minutes gone
C8_Witness ==
    /\ data = INITIAL_DATA
    /\ nextPrayerState.name = "Asr"
    /\ NowMinutes = 16 * 60 + 59
    /\ nextPrayerState.progress = [num |-> 20900, den |-> 210]

(***************************************************************************)
(* C9: the countdown is the floored number of whole seconds from now to    *)
(* the target instant (today's date, or tomorrow's when isTomorrow, at the *)
(* next prayer's iqamah time), rendered HH:MM:SS; a negative remaining     *)
(* duration renders 00:00:00.                                              *)
(***************************************************************************)
TwoDigits(n) == <<DigitChar(n \div 10), DigitChar(n % 10)>>

\* the text for a remaining duration of diff milliseconds
RemainingText(diff) ==
    IF diff < 0 THEN <<"0", "0", ":", "0", "0", ":", "0", "0">>
    ELSE LET secs == diff \div 1000
         IN  TwoDigits(secs \div 3600) \o <<":">> \o TwoDigits((secs \div 60) % 60)
               \o <<":">> \o TwoDigits(secs % 60)

\* milliseconds from the sampled instant to iqamah time on today's date,
\* or on tomorrow's
Remaining(iqamah, isTomorrow) ==
    (LocalDay(currentTime) + (IF isTomorrow THEN 1 ELSE 0)) * MsPerDay
      + MinuteValue(iqamah) * MsPerMinute
      - tzOffset * MsPerMinute
      - currentTime

C9_CountdownFlooredSeconds ==
    Loaded =>
      LET r == nextPrayerState
          s == Sched
      IN  /\ countdownStr = RemainingText(Remaining(r.iqamah, r.isTomorrow))
          /\ Len(countdownStr) = 8
          /\ \A i \in 1..Len(s) : \A tom \in BOOLEAN :
                countdown([name |-> s[i].name, azan |-> s[i].azan,
                           iqamah |-> s[i].iqamah, isTomorrow |-> tom,
                           progress |-> r.progress], currentTime)
                  = RemainingText(Remaining(s[i].iqamah, tom))

\* after Isha on the default schedule, half a second off the full second:
\* eight hours and a fraction remain to tomorrow's Fajr
C9_Witness ==
    /\ data = INITIAL_DATA
    /\ nextPrayerState.isTomorrow
    /\ Remaining(nextPrayerState.iqamah, TRUE) % 1000 = 500
    /\ SubSeq(countdownStr, 1, 3) = <<"0", "8", ":">>

(***************************************************************************)
(* C10 as claimed: on every device, whatever its UTC offset, a notice is   *)
(* in the filter's output exactly when it has no expiryDate or its         *)
(* expiryDate is today's local calendar date or a later one.               *)
(***************************************************************************)
C10_VisibleIffNotExpired ==
    Loaded =>
      LET shown == filterNotices(data, currentTime)
      IN  \A i \in 1..Len(data.notices) :
            LET n == data.notices[i]
            IN  (\E j \in 1..Len(shown) : shown[j] = n)
                  <=> (~hasExpiry(n) \/ n.expiryDate >= LocalDay(currentTime))

(***************************************************************************)
(* C11: the notice filter's output is ordered by creation date, most       *)
(* recent first; every notice in it is a notice of the input list, as      *)
(* stored, and is in the output as many times as in the input (once).      *)
(***************************************************************************)
Occurrences(s, x) == Cardinality({i \in 1..Len(s) : s[i] = x})

C11_SortedSubsetOnce ==
    Loaded =>
      /\ \A i \in 1..(Len(activeNotices) - 1) :
            activeNotices[i].date >= activeNotices[i + 1].date
      /\ \A i \in 1..Len(activeNotices) :
            /\ \E j \in 1..Len(data.notices) : data.notices[j] = activeNotices[i]
            /\ Occurrences(activeNotices, activeNotices[i]) = 1
            /\ Occurrences(data.notices, activeNotices[i]) = 1

\* two notices shown in the reverse of their stored order, a third one dropped
C11_Witness ==
    /\ Loaded
    /\ Len(data.notices) = 3
    /\ Len(activeNotices) = 2
    /\ activeNotices[1] = data.notices[2]
    /\ activeNotices[2] = data.notices[1]
    /\ activeNotices[1].date > activeNotices[2].date

(***************************************************************************)
(* Vocabulary of the coordinator's properties                              *)
(***************************************************************************)
\* no call of the coordinator is under way
Quiet == \A c \in Slots : ~InFlight(c)

\* a load, or a save, has returned and nothing was called since
LoadReturned == Quiet /\ lastSettled.kind = "load"
SaveReturned == Quiet /\ lastSettled.kind = "save"

\* call c returns in this step
Returns(c, kind) ==
    calls[c].kind = kind /\ calls[c].pc = "responded" /\ calls'[c] = Idle

\* the store answered the read with a state: a JSON object with prayers and users
ValidRemote(response) ==
    /\ response.kind = "http"
    /\ response.status = 200
    /\ response.body.text = "json"
    /\ {"prayers", "users"} \subseteq DOMAIN response.body.doc

\* the store did not accept the write
WriteFailed(response) ==
    response.kind = "network" \/ response.status # 200

\* localStorage holds a state with its links, as a load or a save leaves it
ValidCache(text) ==
    /\ text # NullData
    /\ text.text = "json"
    /\ {"prayers", "users", "links"} \subseteq DOMAIN text.doc

\* localStorage holds nothing, or a text that is not JSON
NoUsableCache(text) == text = NullData \/ text.text # "json"

\* the document d with an empty links collection where it has none
WithLinks(d) ==
    [k \in DOMAIN d \cup {"links"} |->
       IF k \in DOMAIN d THEN d[k] ELSE << >>]

(***************************************************************************)
(* C12: whatever the store answers and whatever localStorage holds         *)
(* (nothing, a damaged text, a cached state), load resolves, and resolves  *)
(* to a state with a schedule, a user list and a links collection.         *)
(***************************************************************************)
C12_LoadAlwaysReturnsState ==
    lastSettled.kind = "load" =>
      /\ lastSettled.settled = "fulfilled"
      /\ {"prayers", "users", "links"} \subseteq DOMAIN lastSettled.returns

\* the request failed and the cache was damaged: both catch clauses ran
C12_Witness ==
    /\ LoadReturned
    /\ lastSettled.response = NetworkError
    /\ cache = Garbage
    /\ lastSettled.settled = "fulfilled"
    /\ lastSettled.returns = INITIAL_DATA

(***************************************************************************)
(* C13: when the store answers with a payload that has prayers and users,  *)
(* load returns that payload, with links set to the empty list if it had   *)
(* none, and localStorage then holds the text of the returned state.       *)
(***************************************************************************)
C13_RemotePayloadReturnedAndCached ==
    (LoadReturned /\ ValidRemote(lastSettled.response)) =>
      /\ lastSettled.returns = WithLinks(lastSettled.response.body.doc)
      /\ cache = [text |-> "json", doc |-> lastSettled.returns]

\* a payload stored without links came back with links = []
C13_Witness ==
    /\ LoadReturned
    /\ ValidRemote(lastSettled.response)
    /\ "links" \notin DOMAIN lastSettled.response.body.doc
    /\ lastSettled.returns.links = << >>
    /\ cache.doc = lastSettled.returns

(***************************************************************************)
(* C14: when the remote read fails or yields no valid payload while        *)
(* localStorage holds a state cached earlier, load resolves to that cached *)
(* state and leaves localStorage as it was.                                *)
(***************************************************************************)
C14_FallsBackToCache ==
    [][\A c \in Slots :
         (Returns(c, "load") /\ ~ValidRemote(calls[c].response) /\ ValidCache(cache))
           => /\ lastSettled'.settled = "fulfilled"
              /\ lastSettled'.returns = cache.doc
              /\ cache' = cache]_vars

\* the store answered 404 and the cached state, not the default, came back
C14_Witness ==
    /\ LoadReturned
    /\ lastSettled.response.kind = "http"
    /\ lastSettled.response.status = 404
    /\ ValidCache(cache)
    /\ lastSettled.returns = cache.doc
    /\ lastSettled.returns # INITIAL_DATA

(***************************************************************************)
(* C15: when the remote read fails and localStorage holds nothing or a     *)
(* damaged text, load resolves to INITIAL_DATA and writes neither          *)
(* localStorage nor the store.                                             *)
(***************************************************************************)
C15_FallsBackToDefault ==
    [][\A c \in Slots :
         (Returns(c, "load") /\ ~ValidRemote(calls[c].response) /\ NoUsableCache(cache))
           => /\ lastSettled'.returns = INITIAL_DATA
              /\ cache' = cache
              /\ remote' = remote]_vars

\* the store held a text that is not JSON, localStorage held nothing
C15_Witness ==
    /\ LoadReturned
    /\ lastSettled.response.kind = "http"
    /\ lastSettled.response.status = 200
    /\ lastSettled.response.body = Garbage
    /\ cache = NullData
    /\ lastSettled.returns = INITIAL_DATA

(***************************************************************************)
(* C16: a save first writes the copy of the caller's state stamped with    *)
(* lastUpdated = now to localStorage, the store untouched so far; the      *)
(* request it then sends carries the very text localStorage holds; the     *)
(* caller's own state stays as it was.                                     *)
(***************************************************************************)
Stamped(d, now) ==
    [k \in DOMAIN d \cup {"lastUpdated"} |->
       IF k = "lastUpdated" THEN now ELSE d[k]]

\* the state handed to the save that starts in this step
CallerState(c) ==
    IF calls'[c].caller = "push" THEN formState
    ELSE [data EXCEPT !.notices = SelectSeq(data.notices, LAMBDA n : n.id # deletingId)]

C16_CacheThenIdenticalPost ==
    [][\A c \in Slots :
         /\ (calls[c].pc = "idle" /\ calls'[c].kind = "save")
              => /\ calls'[c].pc = "cached"
                 /\ cache' = [text |-> "json",
                              doc |-> Stamped(CallerState(c), currentTime)]
                 /\ remote' = remote
                 /\ calls'[c].data = CallerState(c)
                 /\ formState' = CallerState(c)
         /\ (calls[c].pc = "cached" /\ calls'[c].pc = "posting")
              => /\ calls'[c].body = cache
                 /\ cache' = cache
                 /\ remote' = remote
                 /\ calls'[c].data = calls[c].data
                 /\ formState' = formState]_vars

\* the request is on its way with the cached text, which carries a new stamp
C16_Witness ==
    \E c \in Slots :
      /\ calls[c].kind = "save" /\ calls[c].pc = "posting"
      /\ calls[c].body = cache
      /\ remote # cache
      /\ cache.doc.lastUpdated = currentTime
      /\ calls[c].data.lastUpdated # currentTime
      /\ formState = calls[c].data

(***************************************************************************)
(* C17: when the store does not accept the write (network error, a status  *)
(* other than OK, 404 included), save still resolves, and localStorage     *)
(* holds the saved payload when it returns.                                *)
(***************************************************************************)
C17_FailedWriteKeepsCache ==
    (SaveReturned /\ WriteFailed(lastSettled.response)) =>
      /\ lastSettled.settled = "fulfilled"
      /\ cache = [text |-> "json", doc |-> lastSettled.updatedData]

\* the store answered 500; it holds something else than the cached payload
C17_Witness ==
    /\ SaveReturned
    /\ lastSettled.response.kind = "http"
    /\ lastSettled.response.status = 500
    /\ cache.doc = lastSettled.updatedData
    /\ remote # cache

(***************************************************************************)
(* C18 as claimed: when the remote write of Confirm & Push fails, the user *)
(* is shown the failure alert and not the success message; when the remote *)
(* write of a notice deletion fails, nothing is shown.                     *)
(***************************************************************************)
C18_PushFailureAlerted ==
    [][\A c \in Slots :
         (Returns(c, "save") /\ WriteFailed(calls[c].response))
           => IF calls[c].caller = "push"
              THEN alertShown' = "Network error. Could not sync with the cloud."
              ELSE alertShown' = alertShown]_vars

(***************************************************************************)
(* C19 as claimed: a load that follows a save at once, nothing else        *)
(* writing the store in between, returns the payload the save stored,      *)
(* whatever became of the write and of the read.                           *)
(***************************************************************************)
C19_SaveThenLoadRoundTrip ==
    (LoadReturned /\ lastSettled.follows.kind = "save") =>
      lastSettled.returns = lastSettled.follows.updatedData

(***************************************************************************)
(* C20 as claimed: after a save whose remote write failed, once the next   *)
(* load succeeds against the store, the store and localStorage both hold   *)
(* the payload of the failed save.                                         *)
(***************************************************************************)
C20_FailedSaveRetriedByLoad ==
    (/\ LoadReturned
     /\ lastSettled.follows.kind = "save"
     /\ WriteFailed(lastSettled.follows.response)
     /\ ValidRemote(lastSettled.response)) =>
      /\ remote = [text |-> "json", doc |-> lastSettled.follows.updatedData]
      /\ cache = [text |-> "json", doc |-> lastSettled.follows.updatedData]

(***************************************************************************)
(* Vocabulary of the session properties                                    *)
(***************************************************************************)
\* the slot holds a record with a user and an expiry
TimedSession(stored) ==
    /\ stored # NullData /\ stored # Garbage
    /\ "user" \in DOMAIN stored.doc /\ "expiry" \in DOMAIN stored.doc

\* the slot holds a bare user
LegacySession(stored) ==
    /\ stored # NullData /\ stored # Garbage
    /\ "expiry" \notin DOMAIN stored.doc /\ "email" \in DOMAIN stored.doc

LoggedIn == currentUser # NullData

\* a timed session of this user expiring at this instant, as stored
SessionOf(user, expiry) == [text |-> "json", doc |-> [user |-> user, expiry |-> expiry]]

\* the stored session is one the claims call invalid: none, unreadable, or
\* timed and expired
Lapsed(stored, now) ==
    \/ stored = NullData
    \/ stored = Garbage
    \/ TimedSession(stored) /\ now >= stored.doc.expiry

(***************************************************************************)
(* C23 as claimed: a stored session with a numeric expiry is valid exactly *)
(* while now < expiry for isSessionValid and for getActiveSession; from    *)
(* now = expiry on, the getActiveSession of a page load returns no user    *)
(* and removes the stored session.                                         *)
(***************************************************************************)
C23_ValidExactlyBeforeExpiry ==
    [][TimedSession(session) =>
         /\ isSessionValid(session, currentTime) <=> currentTime < session.doc.expiry
         /\ pageLoad =>
              IF currentTime < session.doc.expiry
              THEN currentUser' = session.doc.user
              ELSE currentUser' = NullData /\ session' = NullData]_vars

(***************************************************************************)
(* C24: while a user is logged in, an interaction event sets the expiry of *)
(* the stored session to now + 20 minutes and keeps its user; with no      *)
(* session stored the slot stays empty.  The user set in the page is not   *)
(* touched.                                                                *)
(***************************************************************************)
C24_ActivityExtendsSession ==
    [][handleActivity =>
         /\ TimedSession(session) =>
              session' = SessionOf(session.doc.user, currentTime + SESSION_TIMEOUT_MS)
         /\ session = NullData => session' = NullData
         /\ currentUser' = currentUser]_vars

\* a session running past the expiry it started with: it was extended on
\* the way
C24_Witness ==
    /\ LoggedIn
    /\ view = "DASHBOARD"
    /\ currentTime > SessionStart + SESSION_TIMEOUT_MS
    /\ TimedSession(session)
    /\ session.doc.expiry = currentTime + SESSION_TIMEOUT_MS

(***************************************************************************)
(* C25: a stored record of the old format, a bare user without expiry, is  *)
(* valid for isSessionValid and for getActiveSession, and the              *)
(* getActiveSession of a page load stores it again as that user with       *)
(* expiry = now + 20 minutes.                                              *)
(***************************************************************************)
C25_LegacySessionAccepted ==
    [][LegacySession(session) =>
         /\ isSessionValid(session, currentTime)
         /\ getActiveSession(session, currentTime).user = session.doc
         /\ pageLoad =>
              /\ currentUser' = session.doc
              /\ session' = SessionOf(session.doc, currentTime + SESSION_TIMEOUT_MS)]_vars

\* the page was opened on the old record
C25_Witness ==
    /\ currentUser = sanitized(EarlierAdmin)
    /\ session = SessionOf(sanitized(EarlierAdmin), currentTime + SESSION_TIMEOUT_MS)

(***************************************************************************)
(* C26: when the stored session of a logged-in user has lapsed, the        *)
(* 10-second check removes it, unsets the user and leaves the dashboard    *)
(* for the public board, without any request and without touching the      *)
(* local copy; and with no activity in between that check does come.       *)
(***************************************************************************)
C26_LapsedSessionLoggedOut ==
    /\ [][(sessionCheck /\ Lapsed(session, currentTime)) =>
            /\ session' = NullData
            /\ currentUser' = NullData
            /\ view' = (IF view = "DASHBOARD" THEN "PUBLIC" ELSE view)
            /\ UNCHANGED <<remote, cache, calls, data>>]_vars
    /\ [](LoggedIn /\ Lapsed(session, currentTime)
            => <>(~LoggedIn \/ ~Lapsed(session, currentTime)))

\* the check has just logged the user out of the dashboard
C26_Witness ==
    /\ ~LoggedIn
    /\ session = NullData
    /\ view = "PUBLIC"
    /\ alertShown = "Session expired due to inactivity (20 min)."
    /\ currentTime >= SessionStart + SESSION_TIMEOUT_MS

(***************************************************************************)
(* Vocabulary of the user properties                                       *)
(***************************************************************************)
\* two addresses that differ at most in the case of their letters
SameAddress(a, b) == toLowerCase(a) = toLowerCase(b)

\* the state the getCloudData of the call in slot c resolves to
LoadedBy(c) == getCloudData(calls[c].response, cache).returns

\* some user of the list has this address (up to case) and this password
Holds(users, email, password) ==
    \E i \in 1..Len(users) :
      SameAddress(users[i].email, email) /\ users[i].password = password

\* the same, for an account that is enabled
HoldsEnabled(users, email, password) ==
    \E i \in 1..Len(users) :
      /\ SameAddress(users[i].email, email) /\ users[i].password = password
      /\ users[i].enabled

GenericMessage == "Invalid masjid credentials or disabled account."

\* the outcome of every failed login: no user, the one message, the session
\* slot as it was
Refused ==
    /\ lastSettled'.user = NullData
    /\ loginError' = GenericMessage
    /\ UNCHANGED <<session, currentUser, view>>

\* the outcome of a login that succeeded
Admitted ==
    /\ lastSettled'.user # NullData
    /\ currentUser' = lastSettled'.user
    /\ session' = SessionOf(lastSettled'.user, currentTime + SESSION_TIMEOUT_MS)

(***************************************************************************)
(* C27 as claimed: authenticate returns a user and writes a session only   *)
(* when an enabled user of the loaded list has the entered address up to   *)
(* case and exactly the entered password; every other login ends the same  *)
(* way: no user, the generic message, the session slot unchanged.          *)
(***************************************************************************)
C27_AdmitsOnlyMatchingAddress ==
    [][\A c \in Slots : authenticateSettles(c) =>
         IF HoldsEnabled(LoadedBy(c).users, calls[c].email, calls[c].password)
         THEN Admitted ELSE Refused]_vars

(***************************************************************************)
(* C27 amended: the entered address is trimmed of surrounding blanks       *)
(* before it is compared; with that, a login is admitted exactly when an   *)
(* enabled user of the loaded list has that address up to case and the     *)
(* entered password, and is refused in the one uniform way otherwise.      *)
(***************************************************************************)
C27_AdmitsOnlyTrimmedMatch ==
    [][\A c \in Slots : authenticateSettles(c) =>
         IF HoldsEnabled(LoadedBy(c).users, trim(calls[c].email), calls[c].password)
         THEN Admitted ELSE Refused]_vars

\* an address entered with blanks around it has logged in
C27_Witness ==
    /\ lastSettled.kind = "login"
    /\ lastSettled.email = ImamPadded
    /\ lastSettled.user = sanitized(EarlierAdmin)
    /\ currentUser = sanitized(EarlierAdmin)
    /\ view = "DASHBOARD"

(***************************************************************************)
(* C28 as claimed: a login is admitted only on credentials that a user of  *)
(* the list held by the remote store has; credentials found only in the    *)
(* local copy or in the built-in default state create no session.          *)
(***************************************************************************)
C28_OnlyRemoteCredentials ==
    [][\A c \in Slots :
         (authenticateSettles(c) /\ session' # session) =>
           Holds(listed(remote), trim(calls[c].email), calls[c].password)]_vars

\* no two users of the list have the same address up to case
UniqueAddresses(users) ==
    \A i, j \in 1..Len(users) :
      SameAddress(users[i].email, users[j].email) => i = j

(***************************************************************************)
(* C29 as claimed: whatever registerCloudAdmin and updateCloudUser calls   *)
(* have been made, succeeding or failing, on lists whose addresses were    *)
(* unique, no two users of a saved state (the store, the local copy) have  *)
(* the same address up to case.                                            *)
(***************************************************************************)
C29_AddressesStayUnique ==
    /\ UniqueAddresses(listed(remote))
    /\ UniqueAddresses(listed(cache))

\* the call in slot c ends with this error: its message is shown, no save
\* is under way, and the store, the list in memory and the session slot
\* are as they were
Rejected(c, message) ==
    /\ alertShown' = message
    /\ lastSettled'.threw
    /\ calls'[c] = Idle
    /\ UNCHANGED <<remote, data, session>>

\* some user of the list other than userId has this address up to case
TakenByAnother(users, userId, email) ==
    \E i \in 1..Len(users) :
      SameAddress(users[i].email, email) /\ users[i].id # userId

Known(users, userId) == \E i \in 1..Len(users) : users[i].id = userId

C21_LastSaveReplacesAll ==
    [][/\ \A c \in Slots :
            servePost(c, "ok") => remote' = stringify(calls[c].updatedData)
       /\ peerSaves =>
            remote' = stringify(withField(peer.data, "lastUpdated", currentTime))]_vars

\* both have loaded the same state; the other device saved its jamaat, then
\* this one its khutbah: the store holds this device's snapshot and the
\* jamaat both had loaded
C21_Witness ==
    /\ peer.pc = "saved"
    /\ peer.data.jumma.jamaat # peer.base.jumma.jamaat
    /\ lastSettled.kind = "save" /\ lastSettled.settled = "fulfilled"
    /\ \E v \in KhutbahEntries :
         lastSettled.updatedData =
           withField([peer.base EXCEPT !.jumma.khutbah = v],
                     "lastUpdated", currentTime)
    /\ remote = stringify(lastSettled.updatedData)
    /\ remote.doc.jumma.jamaat = peer.base.jumma.jamaat

(***************************************************************************)
(* C22: every reload that settles puts what it read into the state in      *)
(* memory and into the working copy, also when another reload has read     *)
(* the store after it and settled before it.                               *)
(***************************************************************************)
C22_LastReloadWins ==
    [][\A c \in Slots :
         getCloudDataSettles(c) =>
           /\ data' = LoadedBy(c)
           /\ formState' = LoadedBy(c)]_vars

\* the reload that settled last had read the store before the other one
\* did: the state in memory is older than the store and than the local copy
C22_Witness ==
    /\ \A c \in Slots : ~InFlight(c)
    /\ lastSettled.kind = "load"
    /\ lastSettled.overtaken
    /\ data = lastSettled.returns
    /\ formState = lastSettled.returns
    /\ remote # stringify(data)
    /\ remote.doc.lastUpdated > data.lastUpdated

(***************************************************************************)
(* C35 as claimed: once the clock has passed the expiry of the stored      *)
(* session, no activity event, extendSession call or session check makes   *)
(* the stored session valid again (no login takes place in these          *)
(* behaviours).                                                            *)
(***************************************************************************)
C35_ExpiredSessionStaysInvalid ==
    [][(TimedSession(session) /\ currentTime > session.doc.expiry)
         => ~isSessionValid(session', currentTime')]_vars

\* the dashboard is open for a user of this role
ActingAs(role) ==
    /\ currentUser # NullData
    /\ currentUser.role = role
    /\ view = "DASHBOARD"

\* the users of a stored text other than the one logged in on this device
Others(text) ==
    {listed(text)[i] : i \in {j \in 1..Len(listed(text)) :
                                 listed(text)[j].id # currentUser.id}}

\* the store holds the account of the user of this device with
\* enabled = false
DisabledInStore ==
    /\ currentUser # NullData
    /\ \E i \in 1..Len(listed(remote)) :
         /\ listed(remote)[i].id = currentUser.id
         /\ ~listed(remote)[i].enabled

(***************************************************************************)
(* C33 as claimed: a save that the store accepts from the dashboard of a   *)
(* user of role ADMIN adds no user, removes none and changes neither the   *)
(* enabled flag nor the credentials of any user but the own one.           *)
(***************************************************************************)
C33_AdminSavesLeaveOthers ==
    [][\A c \in Serial :
         (servePost(c, "ok") /\ ActingAs("ADMIN"))
            => Others(remote') = Others(remote)]_vars

(***************************************************************************)
(* C39 as claimed: once the store holds the account of the logged-in user  *)
(* with enabled = false, a session check treats the session as invalid:    *)
(* isSessionValid, which decides the check, answers false in every such    *)
(* state.                                                                  *)
(***************************************************************************)
C39_DisabledUserLoggedOut ==
    DisabledInStore => ~isSessionValid(session, currentTime)

(***************************************************************************)
(* C34: starting with no stored session, whatever logins, page loads,      *)
(* activity and credential updates follow, the user held in the session    *)
(* slot has no password field.                                             *)
(***************************************************************************)
C34_SessionHoldsNoPassword ==
    /\ TimedSession(session) => "password" \notin DOMAIN session.doc.user
    /\ LegacySession(session) => "password" \notin DOMAIN session.doc

\* an administrator has logged in and has changed the own address in the
\* edit dialog: the session holds the new address
C34_Witness ==
    /\ TimedSession(session)
    /\ session.doc.user.id = EarlierAdmin.id
    /\ session.doc.user.email = ImamUpper
    /\ lastSettled.kind = "load" /\ lastSettled.caller = "updated"

(***************************************************************************)
(* C38: in every reachable state of the page the view is DASHBOARD only if *)
(* a user is set, whatever the interleaving of logins, logouts, navigation *)
(* clicks, session checks, activity and page loads.                        *)
(***************************************************************************)
C38_DashboardOnlyWithUser ==
    view = "DASHBOARD" => currentUser # NullData

\* after a login on this page, the check has found the session expired and
\* has left the dashboard
C38_Witness ==
    /\ lastSettled.kind = "login" /\ lastSettled.user # NullData
    /\ currentUser = NullData
    /\ view = "PUBLIC"
    /\ alertShown = "Session expired due to inactivity (20 min)."
    /\ currentTime > SessionStart

(***************************************************************************)
(* Vocabulary of the dashboard properties                                  *)
(***************************************************************************)
\* the ids of the notices of a state
IdsOf(d) == {d.notices[i].id : i \in 1..Len(d.notices)}

\* the notices of a state without the one with this id
Without(d, id) == SelectSeq(d.notices, LAMBDA n : n.id # id)

\* a state without its notices and its stamp
NonNotice(d) == withoutField(withoutField(d, "notices"), "lastUpdated")

\* the working copy holds an edit of a field other than the notices that
\* the state in memory does not hold
UnsavedEdits ==
    /\ formState # NullData /\ data # NullData
    /\ NonNotice(formState) # NonNotice(data)

\* this step is the second click on the delete button of a notice
ConfirmedDelete ==
    \E c \in Serial, id \in NoticeIds :
       handleDeleteNotice(c, id) /\ deletingId = id

(***************************************************************************)
(* C31 as claimed: typing into a field of the working copy (a prayer time, *)
(* the khutbah time) leaves the state in memory (data) as it is, whatever  *)
(* loads, pushes, notice posts and notice deletions came before.           *)
(***************************************************************************)
C31_EditsLeaveDataAlone ==
    [][((\E v \in PrayerEntries : editPrayer(v))
        \/ (\E v \in KhutbahEntries : editJummaKhutbah(v)))
         => data' = data]_vars

(***************************************************************************)
(* C36 as claimed: posting or deleting a notice writes to the local cache  *)
(* (and sends to the store) the saved state with the notice change only:   *)
(* every other field is the one of the state in memory, not an unsaved     *)
(* edit of the working copy.                                               *)
(***************************************************************************)
C36_NoticeSavesOnlyNotices ==
    [][((\E c \in Serial, isImportant \in BOOLEAN :
            handleNoticeSubmit(c, isImportant))
        \/ ConfirmedDelete)
         => NonNotice(parse(cache').value) = NonNotice(data)]_vars

(***************************************************************************)
(* C37 as claimed: the periodic reload and a confirmed notice deletion     *)
(* leave the unsaved edits of the working copy in place.                   *)
(***************************************************************************)
C37_EditsSurviveReloadAndDelete ==
    [][(UnsavedEdits
        /\ ((\E c \in Serial : getCloudDataSettles(c)) \/ ConfirmedDelete))
         => NonNotice(formState') = NonNotice(formState)]_vars

(***************************************************************************)
(* C32: a click on the delete button of notice N removes N, and nothing    *)
(* else, exactly when N is the pending confirmation at that moment; any    *)
(* other click on a delete button leaves the notices as they are; and no   *)
(* notice leaves the state in memory on this device in any other way.      *)
(***************************************************************************)
C32_TwoStepDeletion ==
    /\ [][\A id \in NoticeIds :
            handleDeleteNotice(1, id) =>
               data'.notices = IF deletingId = id THEN Without(data, id)
                               ELSE data.notices]_vars
    /\ [][(IdsOf(data) \ IdsOf(data') # {}) =>
            \E id \in NoticeIds : /\ handleDeleteNotice(1, id)
                                   /\ deletingId = id
                                   /\ IdsOf(data) \ IdsOf(data') = {id}]_vars

\* the newer notice was removed by the second of two clicks, after a first
\* confirmation had been reset by its timer, and the removal was stored
C32_Witness ==
    /\ IdsOf(data) = {"welcome-msg"}
    /\ lastSettled.kind = "save" /\ lastSettled.caller = "delete"
    /\ parse(remote).value.notices = data.notices
    /\ Cardinality(timeouts) = 1
    /\ currentTime >= MaxDay * MsPerDay - DeleteSpan * MsPerSecond + ConfirmMs

(***************************************************************************)
(* C40 as claimed: a pending confirmation is reset by a timer only when    *)
(* three seconds have passed since the click that set it.  The timer of    *)
(* that click is the latest of the timers under way, so every timer under  *)
(* way is due at such a reset.                                             *)
(***************************************************************************)
C40_ResetAfterThreeSeconds ==
    [][(deleteTimeout(MsPerSecond) /\ deletingId # NoId) =>
         \A due \in timeouts : due <= currentTime]_vars

=============================================================================
